---- MODULE Spec2Model ----
\* Model of the synchronous-notify ContextImpl of @ggoodman/context:
\* the context tree, cancel / notify / error(), deadlines and host timers.
EXTENDS Integers, Sequences, FiniteSets, TLC

\* ---------------------------------------------------------------- bounds
MaxContexts == 3
MaxTime == 1
MaxListeners == 1
MaxSignals == 1
MaxRegistrations == 2
MaxValueContexts == 4

\* ------------------------------------------------------------ encodings
\* `undefined` for a timestamp (kDeadlineAt), a reason reference and a key.
NoDeadline == -1
NoReason == 0
NoKey == 0
Root == 1

NoErr == [name |-> "none", by |-> 0, errors |-> <<>>]

Timestamps == 0..MaxTime
KeySet == {1}
ValueSet == {1}
ListenerActs == {"noop", "throw"}
CancelArgs == {"none", "message", "error"}

Min(a, b) == IF a <= b THEN a ELSE b

\* ---------------------------------------------------------------- state
VARIABLES
  kParent,              \* ctx -> parent ctx (0 for the root)
  kDeadlineAt,          \* ctx -> absolute deadline or NoDeadline
  kKey,                 \* ctx -> key or NoKey
  kValue,               \* ctx -> value
  kCancellationReason,  \* ctx -> reason reference or NoReason
  kListeners,           \* ctx -> sequence of WrappedCancellationListener
  kAbortController,     \* ctx -> [created, aborted, reason, id]
  abortControllers,     \* how many controllers host.createAbortController made
  currentTimeMs,        \* host.getTime()
  timerQueue,           \* pending host timers
  scheduleCalls,        \* how often host.scheduleWithTimeout was called
  hasUncaughtHandler,   \* whether the host defines onUncaughtException
  uncaughtExceptions,   \* what onUncaughtException received, in order
  reasons,              \* heap of reason objects; a reference is an index
  nextRef,              \* identities handed to listener wrappers
  made,                 \* history: how each context was constructed
  registrations,        \* history: user calls of onDidCancel
  invocations,          \* history: user listener invocations, in order
  promises,             \* promises made by done() and then(), in order
  abortSignal,          \* the signal of a controller the caller made:
                        \* [aborted, reason, listeners]
  variant,              \* which ContextImpl is in use: "sync" or "microtask"
  microtaskQueue,       \* pending host microtasks: [id, ctx, cancelled]
  microtasksScheduled,  \* how often host.scheduleMicrotask was called
  emitterHandlers,      \* the handlers installed on the caller's event
                        \* emitter: [id, name, child, parent, ref]
  hostTimeouts          \* what ContextHost.setTimeout was handed, in order:
                        \* [at, fn, a, args, state]; the handle is the index

vars == <<kParent, kDeadlineAt, kKey, kValue, kCancellationReason, kListeners,
          kAbortController, abortControllers, currentTimeMs, timerQueue, scheduleCalls,
          hasUncaughtHandler, uncaughtExceptions, reasons, nextRef, made, registrations,
          invocations, promises, abortSignal, variant, microtaskQueue,
          microtasksScheduled, emitterHandlers, hostTimeouts>>

\* The heap as one value, threaded through a handler's calls.
M ==
  [parent |-> kParent, deadlineAt |-> kDeadlineAt, key |-> kKey,
   value |-> kValue, reason |-> kCancellationReason, listeners |-> kListeners,
   ctl |-> kAbortController, controllers |-> abortControllers,
   now |-> currentTimeMs, timers |-> timerQueue,
   scheduled |-> scheduleCalls,
   handler |-> hasUncaughtHandler, uncaught |-> uncaughtExceptions,
   reasons |-> reasons, nextRef |-> nextRef, log |-> invocations,
   promises |-> promises, signal |-> abortSignal,
   microtasks |-> microtaskQueue, nextTask |-> microtasksScheduled,
   handlers |-> emitterHandlers, timeouts |-> hostTimeouts]

Contexts == 1..Len(kParent)

\* Results of a call: the heap after it, the value returned, the error thrown.
Ok(m, ret) == [m |-> m, ret |-> ret, exc |-> NoErr]
Throw(m, e) == [m |-> m, ret |-> 0, exc |-> e]
Threw(r) == r.exc # NoErr

\* ------------------------------------------------------------ errors.ts
UserError(by) == [name |-> "Error", by |-> by, errors |-> <<>>]
AggregateError(errors) == [name |-> "AggregateError", by |-> 0, errors |-> errors]

CancelledError(origin, message, cause) ==
  [name |-> "CancelledError", origin |-> origin, message |-> message, cause |-> cause]

DeadlineExceededError(origin) ==
  [name |-> "DeadlineExceededError", origin |-> origin, message |-> "", cause |-> 0]

NoObject == [name |-> "undefined", origin |-> 0, message |-> "", cause |-> 0]

\* `new X()`: the object is put on the heap, its reference is the new index.
New(m, obj) == [m EXCEPT !.reasons = Append(@, obj)]
NewRef(m) == Len(m.reasons) + 1

isCancelledError(r) == r # NoReason /\ reasons[r].name = "CancelledError"
isDeadlineExceededError(r) == r # NoReason /\ reasons[r].name = "DeadlineExceededError"

\* ------------------------------------------------------------- host
\* Throws whether or not the host has a handler.
notifyUncaughtExceptionThrow(m, err) == Throw(m, err)

notifyUncaughtException(m, err) ==
  IF ~m.handler
  THEN Throw(m, err)
  ELSE Ok([m EXCEPT !.uncaught = Append(@, err)], 0)

\* Schedules nothing.
scheduleWithTimeoutNever(m, timeout, c) == [m EXCEPT !.scheduled = @ + 1]

scheduleWithTimeout(m, timeout, c) ==
  [m EXCEPT !.timers = @ \cup {[ctx |-> c, at |-> m.now + timeout]},
            !.scheduled = @ + 1]

clearTimeout(m, c) ==
  [m EXCEPT !.timers = {t \in @ : t.ctx # c}]

abort(m, c, reason) ==
  IF m.ctl[c].aborted THEN m
  ELSE [m EXCEPT !.ctl[c].aborted = TRUE, !.ctl[c].reason = reason]

\* host.createAbortController() stored in this[kAbortController]: a new
\* object, whose identity is its number.
createAbortController(m, this) ==
  [m EXCEPT !.controllers = @ + 1,
            !.ctl[this] = [created |-> TRUE, aborted |-> FALSE, reason |-> NoReason,
                           id |-> m.controllers + 1]]

\* signal.addEventListener('abort', onAbort), onAbort being the closure
\* `() => cancel()` of the context c made by withAbortSignal.
addEventListener(m, c) == [m EXCEPT !.signal.listeners = Append(@, c)]

\* Leaves the listener on the signal.
removeEventListenerNever(m, c) == m

\* signal.removeEventListener('abort', onAbort)
removeEventListener(m, c) ==
  [m EXCEPT !.signal.listeners = SelectSeq(@, LAMBDA x : x # c)]

\* ee.removeListener(eventName, eventHandler): the handler made for the
\* context child in iteration i leaves the emitter, if it is on it.
removeListener(m, child, i) ==
  [m EXCEPT !.handlers = SelectSeq(@, LAMBDA h : ~(h.child = child /\ h.i = i))]

\* ee.once(eventName, eventHandler)
once(m, name, child, i, parent, ref) ==
  [m EXCEPT !.handlers =
     Append(@, [name |-> name, child |-> child, i |-> i, parent |-> parent, ref |-> ref])]

\* A promise settles once: resolve and reject on a settled promise do nothing.
settle(m, p, state, value) ==
  IF m.promises[p].state # "pending" THEN m
  ELSE [m EXCEPT !.promises[p].state = state, !.promises[p].value = value]

\* ------------------------------------------------------- listener lists
WrappedCancellationListener(ref, fn, a, b) ==
  [ref |-> ref, fn |-> fn, a |-> a, b |-> b]

\* Finds the first wrapper holding the same function as the wrapper ref.
IndexOfFunction(s, ref) ==
  IF \E i \in 1..Len(s) : s[i].ref = ref
  THEN LET w == s[CHOOSE i \in 1..Len(s) : s[i].ref = ref]
       IN CHOOSE i \in 1..Len(s) :
            /\ s[i].fn = w.fn /\ s[i].b = w.b
            /\ \A j \in 1..(i - 1) : ~(s[j].fn = w.fn /\ s[j].b = w.b)
  ELSE 0

IndexOf(s, ref) ==
  IF \E i \in 1..Len(s) : s[i].ref = ref
  THEN CHOOSE i \in 1..Len(s) : s[i].ref = ref /\ \A j \in 1..(i - 1) : s[j].ref # ref
  ELSE 0

Splice(s, idx) == SubSeq(s, 1, idx - 1) \o SubSeq(s, idx + 1, Len(s))

\* The disposable returned by onDidCancel; ref 0 is noopDisposable.
dispose(m, c, ref) ==
  IF ref = 0 THEN m
  ELSE LET idx == IndexOf(m.listeners[c], ref)
       IN IF idx >= 1 THEN [m EXCEPT !.listeners[c] = Splice(@, idx)] ELSE m

\* ------------------------------------------------------- ContextImpl
RECURSIVE error(_, _)
RECURSIVE cancel(_, _, _, _)
RECURSIVE notify(_, _)
RECURSIVE drain(_, _, _, _)
RECURSIVE callListener(_, _, _)
RECURSIVE onDidCancel(_, _, _, _, _)

\* The identity, in the invocation log, of the listener that registration a
\* registers from inside, and of the return of registration a.
NestedId(a) == a + MaxRegistrations
ReturnOf(a) == 0 - a

\* The end of a listener that called onDidCancel from inside: it returns,
\* unless the call threw.
nestReturn(r, a) ==
  IF Threw(r) THEN r
  ELSE Ok([r.m EXCEPT !.log = Append(@, [reg |-> ReturnOf(a), reason |-> NoReason])], 0)

\* A listener function applied to a reason.  fn is what the closure does:
\*   link        (reason) => ContextImpl.cancel(this, reason)   of child a
\*   unlink      () => disposable.dispose()    of registration a on parent b
\*   clearTimer  the dispose of the timer scheduled for context a
\*   abort       ctl.abort.bind(ctl)           of the controller of context a
\*   user        registration a of the caller, acting as b
\*   reenter     registration a of the caller, which calls
\*               ContextImpl.cancel(b, new CancelledError()) from inside
\*   resolve     (reason) => resolve(reason)   of promise a, made by done()
\*   reject      (reason) => reject(reason)    of promise a, made by then()
\*   removeAbort () => signal.removeEventListener('abort', onAbort)
\*               of the context a made by withAbortSignal
\*   nest        registration a of the caller, which calls
\*               b.onDidCancel(inner) from inside, b being the context it
\*               is registered on; nestThrow: the same, and inner throws
\*   removeHandler () => ee.removeListener(eventName, eventHandler), the
\*               handler being the one withEventEmitter made for the
\*               context a in iteration b
\*   peek        registration a of the caller, which calls b.error() from
\*               inside
\* The child's own listener cancels the parent instead of unlinking from it.
callListenerUp(m, l, reason) ==
  CASE l.fn = "link" -> cancel(m, l.a, reason, NoObject)
    [] l.fn = "unlink" -> cancel(m, l.b, reason, NoObject)
    [] l.fn = "clearTimer" -> Ok(clearTimeout(m, l.a), 0)
    [] l.fn = "abort" -> Ok(abort(m, l.a, reason), 0)
    [] l.fn = "resolve" -> Ok(settle(m, l.a, "fulfilled", reason), 0)
    [] l.fn = "reject" -> Ok(settle(m, l.a, "rejected", reason), 0)
    [] l.fn = "removeAbort" -> Ok(removeEventListener(m, l.a), 0)
    [] l.fn = "removeHandler" -> Ok(removeListener(m, l.a, l.b), 0)
    [] l.fn \in {"nest", "nestThrow"} ->
         nestReturn(
           onDidCancel([m EXCEPT !.log = Append(@, [reg |-> l.a, reason |-> reason])],
                       l.b, "user", NestedId(l.a),
                       IF l.fn = "nestThrow" THEN "throw" ELSE "noop"),
           l.a)
    [] l.fn = "peek" ->
         nestReturn(
           error([m EXCEPT !.log = Append(@, [reg |-> l.a, reason |-> reason])], l.b),
           l.a)
    [] l.fn = "reenter" ->
         cancel([m EXCEPT !.log = Append(@, [reg |-> l.a, reason |-> reason])],
                l.b, NoReason, CancelledError(l.b, "Cancelled", 0))
    [] OTHER ->
         LET m1 == [m EXCEPT !.log = Append(@, [reg |-> l.a, reason |-> reason])]
         IN IF l.b = "throw" THEN Throw(m1, UserError(l.a)) ELSE Ok(m1, 0)

callListener(m, l, reason) ==
  CASE l.fn = "link" -> cancel(m, l.a, reason, NoObject)
    [] l.fn = "unlink" -> Ok(dispose(m, l.b, l.a), 0)
    [] l.fn = "clearTimer" -> Ok(clearTimeout(m, l.a), 0)
    [] l.fn = "abort" -> Ok(abort(m, l.a, reason), 0)
    [] l.fn = "resolve" -> Ok(settle(m, l.a, "fulfilled", reason), 0)
    [] l.fn = "reject" -> Ok(settle(m, l.a, "rejected", reason), 0)
    [] l.fn = "removeAbort" -> Ok(removeEventListener(m, l.a), 0)
    [] l.fn = "removeHandler" -> Ok(removeListener(m, l.a, l.b), 0)
    [] l.fn \in {"nest", "nestThrow"} ->
         nestReturn(
           onDidCancel([m EXCEPT !.log = Append(@, [reg |-> l.a, reason |-> reason])],
                       l.b, "user", NestedId(l.a),
                       IF l.fn = "nestThrow" THEN "throw" ELSE "noop"),
           l.a)
    [] l.fn = "peek" ->
         nestReturn(
           error([m EXCEPT !.log = Append(@, [reg |-> l.a, reason |-> reason])], l.b),
           l.a)
    [] l.fn = "reenter" ->
         cancel([m EXCEPT !.log = Append(@, [reg |-> l.a, reason |-> reason])],
                l.b, NoReason, CancelledError(l.b, "Cancelled", 0))
    [] OTHER ->
         LET m1 == [m EXCEPT !.log = Append(@, [reg |-> l.a, reason |-> reason])]
         IN IF l.b = "throw" THEN Throw(m1, UserError(l.a)) ELSE Ok(m1, 0)

\* Leaves the loop at the first listener that throws.
drainRestAbort(r, c, reason, errors) ==
  IF Threw(r) THEN [m |-> r.m, errors |-> Append(errors, r.exc)]
  ELSE drain(r.m, c, reason, errors)

\* notify(): the rest of the loop after one listener was called; what it
\* threw is pushed on errors.
drainRest(r, c, reason, errors) ==
  drain(r.m, c, reason, IF Threw(r) THEN Append(errors, r.exc) ELSE errors)

\* Invokes the head listener and drops the others.
drainHeadOnly(m, c, reason, errors) ==
  IF Len(m.listeners[c]) = 0
  THEN [m |-> m, errors |-> errors]
  ELSE LET r == callListener([m EXCEPT !.listeners[c] = <<>>], Head(m.listeners[c]), reason)
       IN [m |-> r.m, errors |-> IF Threw(r) THEN Append(errors, r.exc) ELSE errors]

\* Calls every listener twice.
drainTwice(m, c, reason, errors) ==
  IF Len(m.listeners[c]) = 0
  THEN [m |-> m, errors |-> errors]
  ELSE drainRest(callListener(callListener([m EXCEPT !.listeners[c] = Tail(@)],
                                           Head(m.listeners[c]), reason).m,
                              Head(m.listeners[c]), reason),
                 c, reason, errors)

\* notify(): `while (listeners.length) { listeners.shift() ... }`
drain(m, c, reason, errors) ==
  IF Len(m.listeners[c]) = 0
  THEN [m |-> m, errors |-> errors]
  ELSE drainRest(callListener([m EXCEPT !.listeners[c] = Tail(@)],
                              Head(m.listeners[c]), reason),
                 c, reason, errors)

\* Reports the first collected error only.
reportFirstOnly(d) ==
  IF Len(d.errors) >= 1 THEN notifyUncaughtException(d.m, d.errors[1])
  ELSE Ok(d.m, 0)

\* notify(): what is done with the errors the loop collected.
reportErrors(d) ==
  IF Len(d.errors) = 1 THEN notifyUncaughtException(d.m, d.errors[1])
  ELSE IF Len(d.errors) > 1 THEN notifyUncaughtException(d.m, AggregateError(d.errors))
  ELSE Ok(d.m, 0)

\* Returns without draining the list.
notifySkip(m, c) == Ok(m, 0)

notify(m, c) == reportErrors(drain(m, c, m.reason[c], <<>>))

\* A call r that is followed by `return value`.
Returning(r, value) == IF Threw(r) THEN r ELSE Ok(r.m, value)

\* error(): `return this[kCancellationReason]` after the call n.
ReturnStored(n, c) == IF Threw(n) THEN n ELSE Ok(n.m, n.m.reason[c])

DeadlineReachedStrict(now, deadlineAt) == now > deadlineAt

\* Takes the deadline for reached one millisecond early.
DeadlineReachedEarly(now, deadlineAt) == now + 1 >= deadlineAt

\* error(): `now >= deadlineAt`
DeadlineReached(now, deadlineAt) == now >= deadlineAt

SettledNever(m, c) == FALSE

\* error(): `if (this[kCancellationReason])`
Settled(m, c) == m.reason[c] # NoReason

\* Stores a copy of the parent's reason object.
AdoptCopy(m, c, parentReason) ==
  [New(m, m.reasons[parentReason]) EXCEPT !.reason[c] = NewRef(m)]

\* error(): `this[kCancellationReason] = parentReason`
Adopt(m, c, parentReason) == [m EXCEPT !.reason[c] = parentReason]

\* Examines the context's own deadline before the reason of the parent.
errorOwnDeadlineFirst(p, c) ==
  IF Threw(p) THEN p
  ELSE IF p.m.deadlineAt[c] # NoDeadline /\ DeadlineReached(p.m.now, p.m.deadlineAt[c])
  THEN ReturnStored(
         notify([New(p.m, DeadlineExceededError(c)) EXCEPT !.reason[c] = NewRef(p.m)], c),
         c)
  ELSE IF p.ret # NoReason
  THEN ReturnStored(notify(Adopt(p.m, c, p.ret), c), c)
  ELSE Ok(p.m, p.m.reason[c])

\* error(): the branches taken once `this[kParent]?.error()` has returned p.
errorAfterParent(p, c) ==
  IF Threw(p) THEN p
  ELSE IF p.ret # NoReason
  THEN ReturnStored(notify(Adopt(p.m, c, p.ret), c), c)
  ELSE IF p.m.deadlineAt[c] # NoDeadline /\ DeadlineReached(p.m.now, p.m.deadlineAt[c])
  THEN ReturnStored(
         notify([New(p.m, DeadlineExceededError(c)) EXCEPT !.reason[c] = NewRef(p.m)], c),
         c)
  ELSE Ok(p.m, p.m.reason[c])

error(m, c) ==
  IF Settled(m, c)
  THEN Ok(m, m.reason[c])
  ELSE errorAfterParent(
         IF m.parent[c] # 0 THEN error(m, m.parent[c]) ELSE Ok(m, NoReason), c)

AlreadyCancelledNever(reason) == FALSE

\* cancel(): `if (ctx.error())`
AlreadyCancelled(reason) == reason # NoReason

\* cancel(): what follows `ctx.error()`, which returned e.
cancelAfterError(e, c, reason, obj) ==
  IF Threw(e) THEN e
  ELSE IF AlreadyCancelled(e.ret) THEN Ok(e.m, 0)
  ELSE IF reason # NoReason
  THEN notify([e.m EXCEPT !.reason[c] = reason], c)
  ELSE notify([New(e.m, obj) EXCEPT !.reason[c] = NewRef(e.m)], c)

\* ContextImpl.cancel(ctx, reason).  The caller passes either a reference it
\* holds (reason) or a freshly constructed object (obj, with reason NoReason);
\* a fresh object is given its heap index when it is stored.
cancel(m, c, reason, obj) == cancelAfterError(error(m, c), c, reason, obj)

\* onDidCancel(): `try { listener(err) } catch (err) { notifyUncaughtException }`
caught(r) ==
  IF Threw(r) THEN notifyUncaughtException(r.m, r.exc) ELSE Ok(r.m, 0)

\* Puts a new wrapper at the front of the listener list.
onDidCancelFront(m, c, fn, a, b) ==
  IF m.reason[c] # NoReason
  THEN caught(callListener(m, WrappedCancellationListener(0, fn, a, b), m.reason[c]))
  ELSE Ok([m EXCEPT !.nextRef = m.nextRef + 1,
                    !.listeners[c] =
                       <<WrappedCancellationListener(m.nextRef + 1, fn, a, b)>> \o @],
          m.nextRef + 1)

\* Pushes the wrapper also when the context is cancelled already.
onDidCancelPush(m, c, fn, a, b) ==
  Ok([m EXCEPT !.nextRef = m.nextRef + 1,
               !.listeners[c] =
                  Append(@, WrappedCancellationListener(m.nextRef + 1, fn, a, b))],
     m.nextRef + 1)

\* Invokes the listener of a cancelled context and pushes its wrapper as well.
onDidCancelBoth(m, c, fn, a, b) ==
  IF m.reason[c] # NoReason
  THEN caught(callListener(
                [m EXCEPT !.nextRef = m.nextRef + 1,
                          !.listeners[c] =
                             Append(@, WrappedCancellationListener(m.nextRef + 1, fn, a, b))],
                WrappedCancellationListener(0, fn, a, b), m.reason[c]))
  ELSE Ok([m EXCEPT !.nextRef = m.nextRef + 1,
                    !.listeners[c] =
                       Append(@, WrappedCancellationListener(m.nextRef + 1, fn, a, b))],
          m.nextRef + 1)

onDidCancel(m, c, fn, a, b) ==
  IF m.reason[c] # NoReason
  THEN caught(callListener(m, WrappedCancellationListener(0, fn, a, b), m.reason[c]))
  ELSE Ok([m EXCEPT !.nextRef = m.nextRef + 1,
                    !.listeners[c] =
                       Append(@, WrappedCancellationListener(m.nextRef + 1, fn, a, b))],
          m.nextRef + 1)

NoController == [created |-> FALSE, aborted |-> FALSE, reason |-> NoReason, id |-> 0]

\* constructor: the field assignments; the new context is the next index.
assignFields(m, cancellationReason, deadlineAt, key, value, parent) ==
  [m EXCEPT !.parent = Append(@, parent),
            !.deadlineAt = Append(@, deadlineAt),
            !.key = Append(@, key),
            !.value = Append(@, value),
            !.reason = Append(@, cancellationReason),
            !.listeners = Append(@, <<>>),
            !.ctl = Append(@, NoController)]

\* constructor: `this.onDidCancel(() => { disposable.dispose() })`
unlinkFromParent(disposable, this, parent) ==
  IF Threw(disposable) THEN disposable
  ELSE Returning(onDidCancel(disposable.m, this, "unlink", disposable.ret, parent), this)

\* Assigns the fields and subscribes to nothing.
ConstructorUnlinked(m, cancellationReason, deadlineAt, key, value, parent) ==
  Ok(assignFields(m, cancellationReason, deadlineAt, key, value, parent),
     Len(m.parent) + 1)

\* new ContextImpl(host, options); returns the heap holding the new context,
\* whose identity is the next index.
Constructor(m, cancellationReason, deadlineAt, key, value, parent) ==
  IF parent = 0
  THEN Ok(assignFields(m, cancellationReason, deadlineAt, key, value, parent),
          Len(m.parent) + 1)
  ELSE unlinkFromParent(
         onDidCancel(assignFields(m, cancellationReason, deadlineAt, key, value, parent),
                     parent, "link", Len(m.parent) + 1, 0),
         Len(m.parent) + 1, parent)

\* withCancel / withDeadline: `new ContextImpl(..., { cancellationReason:
\* ctx.error(), deadlineAt, parent: ctx })`, ctx.error() having returned e.
childOf(e, ctx, deadlineAt) ==
  IF Threw(e) THEN e ELSE Constructor(e.m, e.ret, deadlineAt, NoKey, 0, ctx)

\* Gives the child of a cancelled parent a reason object of its own.
withCancelFresh(m, ctx) ==
  LET e == error(m, ctx)
  IN IF Threw(e) THEN e
     ELSE IF e.ret = NoReason
     THEN Constructor(e.m, NoReason, e.m.deadlineAt[ctx], NoKey, 0, ctx)
     ELSE Constructor(New(e.m, CancelledError(ctx, "Cancelled", 0)), NewRef(e.m),
                      e.m.deadlineAt[ctx], NoKey, 0, ctx)

withCancel(m, ctx) == childOf(error(m, ctx), ctx, m.deadlineAt[ctx])

\* The cancel function returned by withCancel.
cancelFunc(m, childCtx, arg) ==
  cancel(m, childCtx, NoReason,
         IF arg = "error" THEN CancelledError(childCtx, "Cancelled", 1)
         ELSE IF arg = "message" THEN CancelledError(childCtx, "message", 0)
         ELSE CancelledError(childCtx, "Cancelled", 0))

\* The cancel function returned by withDeadline.
deadlineCancelFunc(m, childCtx) ==
  cancel(m, childCtx, NoReason, CancelledError(childCtx, "Cancelled", 0))

\* JavaScript truthiness of an optional number.
Truthy(n) == n # NoDeadline /\ n # 0

Max(a, b) == IF a >= b THEN a ELSE b

EffectiveDeadlineMax(parentDeadlineAt, epochTimeMs) ==
  IF Truthy(parentDeadlineAt) THEN Max(parentDeadlineAt, epochTimeMs) ELSE epochTimeMs

EffectiveDeadline(parentDeadlineAt, epochTimeMs) ==
  IF Truthy(parentDeadlineAt) THEN Min(parentDeadlineAt, epochTimeMs) ELSE epochTimeMs

NeedsTimer(parentDeadlineAt, deadlineAt) ==
  ~Truthy(parentDeadlineAt) \/ parentDeadlineAt > deadlineAt

\* withDeadline: the timer set up for the child k.ret, and its clean-up
\* registered on the parent ctx.
scheduleDeadline(k, ctx, deadlineAt, now) ==
  IF Threw(k) \/ ~NeedsTimer(k.m.deadlineAt[ctx], deadlineAt) THEN k
  ELSE Returning(onDidCancel(scheduleWithTimeout(k.m, deadlineAt - now, k.ret),
                             ctx, "clearTimer", k.ret, 0),
                 k.ret)

withDeadline(m, ctx, epochTimeMs, now) ==
  scheduleDeadline(
    childOf(error(m, ctx), ctx, EffectiveDeadline(m.deadlineAt[ctx], epochTimeMs)),
    ctx, EffectiveDeadline(m.deadlineAt[ctx], epochTimeMs), now)

withTimeout(m, ctx, timeoutMs) ==
  withDeadline(m, ctx, m.now + timeoutMs, m.now)

withValue(m, this, key, value) ==
  Constructor(m, m.reason[this], m.deadlineAt[this], key, value, this)

timerCallbackParent(m, childCtx) ==
  cancel(m, m.parent[childCtx], NoReason, DeadlineExceededError(childCtx))

\* The host timer callback scheduled by withDeadline.
timerCallback(m, childCtx) ==
  cancel(m, childCtx, NoReason, DeadlineExceededError(childCtx))

\* signal: the controller was just created; `return ctl.signal`.
attachController(m1, this) ==
  IF m1.reason[this] # NoReason
  THEN Ok(abort(m1, this, m1.reason[this]), m1.ctl[this].id)
  ELSE Returning(onDidCancel(m1, this, "abort", this, 0), m1.ctl[this].id)

\* Makes a new controller on every read.
signalFresh(m, this) == attachController(createAbortController(m, this), this)

\* get signal(): returns the identity of the signal object.
signal(m, this) ==
  IF m.ctl[this].created THEN Ok(m, m.ctl[this].id)
  ELSE attachController(createAbortController(m, this), this)

\* `new Promise(...)` / `Promise.resolve(err)` / `Promise.reject(err)`: the
\* promise is the next index; early records that it was created pending.
NewPromise(m, this, kind, state, value) ==
  [m EXCEPT !.promises = Append(@, [ctx |-> this, kind |-> kind, state |-> state,
                                    value |-> value, early |-> state = "pending"])]

\* done(): what follows `const err = this.error()`, which returned e.
doneAfterError(e, this) ==
  IF Threw(e) THEN e
  ELSE IF e.ret # NoReason
  THEN Ok(NewPromise(e.m, this, "done", "fulfilled", e.ret), Len(e.m.promises) + 1)
  ELSE Returning(onDidCancel(NewPromise(e.m, this, "done", "pending", NoReason),
                             this, "resolve", Len(e.m.promises) + 1, 0),
                 Len(e.m.promises) + 1)

done(m, this) == doneAfterError(error(m, this), this)

\* Settles the thenable view the way done() settles its promise.
thenFulfils(e, this) ==
  IF Threw(e) THEN e
  ELSE IF e.ret # NoReason
  THEN Ok(NewPromise(e.m, this, "then", "fulfilled", e.ret), Len(e.m.promises) + 1)
  ELSE Returning(onDidCancel(NewPromise(e.m, this, "then", "pending", NoReason),
                             this, "resolve", Len(e.m.promises) + 1, 0),
                 Len(e.m.promises) + 1)

\* then(): what follows `const err = this.error()`, which returned e; the
\* promise modelled is the one onfulfilled / onrejected are attached to.
thenAfterError(e, this) ==
  IF Threw(e) THEN e
  ELSE IF e.ret # NoReason
  THEN Ok(NewPromise(e.m, this, "then", "rejected", e.ret), Len(e.m.promises) + 1)
  ELSE Returning(onDidCancel(NewPromise(e.m, this, "then", "pending", NoReason),
                             this, "reject", Len(e.m.promises) + 1, 0),
                 Len(e.m.promises) + 1)

then(m, this) == thenAfterError(error(m, this), this)

\* withAbortSignal: `const onAbort = () => cancel()`, the cancel function
\* being the one withCancel returned for childCtx.
onAbort(m, childCtx) == cancelFunc(m, childCtx, "none")

\* The platform's dispatch of the abort event: the listeners registered when
\* the dispatch began are called in order, one that was removed meanwhile is
\* skipped, and what a listener throws is reported by the platform and does
\* not reach the caller of abort().
RECURSIVE dispatchAbort(_, _)
dispatchAbort(m, todo) ==
  IF Len(todo) = 0 THEN m
  ELSE IF \E i \in 1..Len(m.signal.listeners) : m.signal.listeners[i] = Head(todo)
  THEN dispatchAbort(onAbort(m, Head(todo)).m, Tail(todo))
  ELSE dispatchAbort(m, Tail(todo))

\* AbortController.abort(reason) of the caller's controller.  reason is what
\* signal.reason holds afterwards: "error" for an Error object (the platform's
\* AbortError when none was given), "none" where the platform leaves it unset.
abortController(m, reason) ==
  IF m.signal.aborted THEN m
  ELSE dispatchAbort([m EXCEPT !.signal.aborted = TRUE, !.signal.reason = reason],
                     m.signal.listeners)

\* Attaches the abort listener whether or not the signal is aborted already.
attachAbortLate(k) ==
  IF Threw(k) THEN k
  ELSE Returning(onDidCancel(addEventListener(k.m, k.ret), k.ret, "removeAbort", k.ret, 0),
                 k.ret)

\* withAbortSignal: what follows `ContextImpl.withCancel(ctx)`, which
\* returned the child k.ret.
attachAbort(k) ==
  IF Threw(k) THEN k
  ELSE IF k.m.signal.aborted
  THEN Returning(cancelFunc(k.m, k.ret, k.m.signal.reason), k.ret)
  ELSE Returning(onDidCancel(addEventListener(k.m, k.ret), k.ret, "removeAbort", k.ret, 0),
                 k.ret)

withAbortSignal(m, ctx) == attachAbort(withCancel(m, ctx))

\* ------------------------------------------------------ node/events.ts
\* `eventNames[i]` for i = 0 .. eventNames.length: past the end of the array
\* the name is undefined.
UndefinedEvent == "undefined"

NameAt(eventNames, i) ==
  IF i < Len(eventNames) THEN eventNames[i + 1] ELSE UndefinedEvent

RECURSIVE installHandlers(_, _, _, _, _)

\* withEventEmitter: `ee.once(eventName, eventHandler)` after the call
\* `ctx.onDidCancel(...)`, which returned d.
installRest(d, ctx, child, eventNames, i) ==
  IF Threw(d) THEN d
  ELSE installHandlers(once(d.m, NameAt(eventNames, i), child, i, ctx, d.ret),
                       ctx, child, eventNames, i + 1)

\* withEventEmitter: `for (let i = 0; i <= eventNames.length; i++)`
installHandlers(m, ctx, child, eventNames, i) ==
  IF i > Len(eventNames) THEN Ok(m, child)
  ELSE installRest(onDidCancel(m, ctx, "removeHandler", child, i),
                   ctx, child, eventNames, i)

\* withEventEmitter: what follows `ContextImpl.withCancel(ctx)`, which
\* returned k.
installAfterWithCancel(k, ctx, eventNames) ==
  IF Threw(k) THEN k ELSE installHandlers(k.m, ctx, k.ret, eventNames, 0)

withEventEmitter(m, ctx, eventNames) ==
  installAfterWithCancel(withCancel(m, ctx), ctx, eventNames)

\* eventHandler: removeListener, disposable.dispose(), cancel(message)
eventHandler(m, h) ==
  cancelFunc(dispose(removeListener(m, h.child, h.i), h.parent, h.ref), h.child, "message")

RECURSIVE emitTo(_, _)

\* ee.emit: the rest of the handlers after one returned r; an exception
\* leaves emit.
emitRest(r, todo) == IF Threw(r) THEN r ELSE emitTo(r.m, todo)

\* ee.emit: the handlers that were on the emitter for the event are called
\* in order; one installed with once leaves the emitter before it is called.
emitTo(m, todo) ==
  IF Len(todo) = 0 THEN Ok(m, 0)
  ELSE emitRest(eventHandler(m, Head(todo)), Tail(todo))

emit(m, name) == emitTo(m, SelectSeq(m.handlers, LAMBDA h : h.name = name))

\* ------------------------------------- ContextImpl with microtask notify
\* src/src/contextImpl.ts: the same state, but the listeners are notified by
\* a microtask that the host runs later.  The operators carry the suffix
\* Micro where the two classes share a name.

\* host.scheduleMicrotask(ContextImpl.notify, ctx); the task's identity is its
\* number, and its disposable sets the `cancelled` flag of the closure.
scheduleMicrotask(m, ctx) ==
  [m EXCEPT !.nextTask = @ + 1,
            !.microtasks = Append(@, [id |-> m.nextTask + 1, ctx |-> ctx,
                                      cancelled |-> FALSE])]

\* The dispose of a microtask's disposable: `cancelled = true`.
cancelMicrotask(m, task) ==
  [m EXCEPT !.microtasks =
     [i \in 1..Len(@) |-> IF @[i].id = task THEN [@[i] EXCEPT !.cancelled = TRUE]
                                             ELSE @[i]]]

\* A disposable of onDidCancel: the wrapper and the microtask, if any (0).
DisposableOf(ref, task) == [ref |-> ref, task |-> task]

\* error(): the branches taken once `this.#parent?.error()` has returned p.
errorMicroAfterParent(p, c) ==
  IF p.ret # NoReason
  THEN Ok(scheduleMicrotask(Adopt(p.m, c, p.ret), c), p.ret)
  ELSE IF p.m.deadlineAt[c] # NoDeadline /\ DeadlineReached(p.m.now, p.m.deadlineAt[c])
  THEN Ok(scheduleMicrotask(
            [New(p.m, DeadlineExceededError(c)) EXCEPT !.reason[c] = NewRef(p.m)], c),
          NewRef(p.m))
  ELSE Ok(p.m, NoReason)

RECURSIVE errorMicro(_, _)
errorMicro(m, c) ==
  IF m.reason[c] # NoReason
  THEN Ok(m, m.reason[c])
  ELSE errorMicroAfterParent(
         IF m.parent[c] # 0 THEN errorMicro(m, m.parent[c]) ELSE Ok(m, NoReason), c)

\* cancel(): what follows `ctx.error()`, which returned e.
cancelMicroAfterError(e, c, reason, obj) ==
  IF e.ret # NoReason THEN Ok(e.m, 0)
  ELSE IF reason # NoReason
  THEN Ok(scheduleMicrotask([e.m EXCEPT !.reason[c] = reason], c), 0)
  ELSE Ok(scheduleMicrotask([New(e.m, obj) EXCEPT !.reason[c] = NewRef(e.m)], c), 0)

cancelMicro(m, c, reason, obj) == cancelMicroAfterError(errorMicro(m, c), c, reason, obj)

\* Cancels the microtask and leaves the wrapper in the list.
disposeMicroTaskOnly(m, c, d) ==
  IF d.task # 0 THEN cancelMicrotask(m, d.task) ELSE m

\* The dispose returned by onDidCancel: `disposable?.dispose()`, then the
\* wrapper is spliced out of the list if it is still there.
disposeMicro(m, c, d) ==
  LET m1 == IF d.task # 0 THEN cancelMicrotask(m, d.task) ELSE m
      idx == IndexOf(m1.listeners[c], d.ref)
  IN IF idx >= 1 THEN [m1 EXCEPT !.listeners[c] = Splice(@, idx)] ELSE m1

\* A listener function applied to a reason; for unlink, a is the disposable
\* of the link registration on parent b.
callListenerMicro(m, l, reason) ==
  CASE l.fn = "link" -> cancelMicro(m, l.a, reason, NoObject)
    [] l.fn = "unlink" -> Ok(disposeMicro(m, l.b, l.a), 0)
    [] l.fn = "clearTimer" -> Ok(clearTimeout(m, l.a), 0)
    [] OTHER ->
         LET m1 == [m EXCEPT !.log = Append(@, [reg |-> l.a, reason |-> reason])]
         IN IF l.b = "throw" THEN Throw(m1, UserError(l.a)) ELSE Ok(m1, 0)

RECURSIVE drainMicro(_, _, _)

\* notify(): the rest of the loop after one listener was called.
drainMicroRest(r, c, errors) ==
  drainMicro(r.m, c, IF Threw(r) THEN Append(errors, r.exc) ELSE errors)

\* notify(): `while (ctx.#listeners.length) { ctx.#listeners.shift() ... }`
drainMicro(m, c, errors) ==
  IF Len(m.listeners[c]) = 0
  THEN [m |-> m, errors |-> errors]
  ELSE drainMicroRest(callListenerMicro([m EXCEPT !.listeners[c] = Tail(@)],
                                        Head(m.listeners[c]), m.reason[c]),
                      c, errors)

\* notify(): what is done with the errors the loop collected.
reportErrorsMicro(d) ==
  IF Len(d.errors) = 0 THEN Ok(d.m, 0)
  ELSE IF ~d.m.handler
  THEN Throw(d.m, IF Len(d.errors) = 1 THEN d.errors[1] ELSE AggregateError(d.errors))
  ELSE Ok([d.m EXCEPT !.uncaught =
             Append(@, IF Len(d.errors) = 1 THEN d.errors[1]
                       ELSE AggregateError(d.errors))], 0)

notifyMicro(m, c) == reportErrorsMicro(drainMicro(m, c, <<>>))

\* The closure the host queued: `if (cancelled) return; fn(...args)`.  What
\* notify throws there is an uncaught error of the platform.
runMicrotask(m, t) == IF t.cancelled THEN m ELSE notifyMicro(m, t.ctx).m

\* onDidCancel(): what follows `this.error()`, which returned e, the wrapper
\* ref having been pushed.
onDidCancelMicroAfterError(e, c, ref) ==
  IF e.ret # NoReason
  THEN Ok(scheduleMicrotask(e.m, c), DisposableOf(ref, e.m.nextTask + 1))
  ELSE Ok(e.m, DisposableOf(ref, 0))

onDidCancelMicro(m, c, fn, a, b) ==
  onDidCancelMicroAfterError(
    errorMicro([m EXCEPT !.nextRef = m.nextRef + 1,
                         !.listeners[c] =
                            Append(@, WrappedCancellationListener(m.nextRef + 1, fn, a, b))],
               c),
    c, m.nextRef + 1)

\* constructor: `this.onDidCancel(() => { disposable.dispose() })`
unlinkFromParentMicro(disposable, this, parent) ==
  Returning(onDidCancelMicro(disposable.m, this, "unlink", disposable.ret, parent), this)

\* new ContextImpl(host, options)
ConstructorMicro(m, cancellationReason, deadlineAt, key, value, parent) ==
  IF parent = 0
  THEN Ok(assignFields(m, cancellationReason, deadlineAt, key, value, parent),
          Len(m.parent) + 1)
  ELSE unlinkFromParentMicro(
         onDidCancelMicro(assignFields(m, cancellationReason, deadlineAt, key, value, parent),
                          parent, "link", Len(m.parent) + 1, 0),
         Len(m.parent) + 1, parent)

\* withCancel / withDeadline: `new ContextImpl(..., { cancellationReason:
\* ctx.error(), deadlineAt, parent: ctx })`, ctx.error() having returned e.
childOfMicro(e, ctx, deadlineAt) == ConstructorMicro(e.m, e.ret, deadlineAt, NoKey, 0, ctx)

withCancelMicro(m, ctx) == childOfMicro(errorMicro(m, ctx), ctx, m.deadlineAt[ctx])

\* The cancel function returned by withCancel.
cancelFuncMicro(m, childCtx, arg) ==
  cancelMicro(m, childCtx, NoReason,
              IF arg = "error" THEN CancelledError(childCtx, "Cancelled", 1)
              ELSE IF arg = "message" THEN CancelledError(childCtx, "message", 0)
              ELSE CancelledError(childCtx, "Cancelled", 0))

\* The cancel function returned by withDeadline.
deadlineCancelFuncMicro(m, childCtx) ==
  cancelMicro(m, childCtx, NoReason, CancelledError(childCtx, "Cancelled", 0))

\* withDeadline: the timer set up for the child k.ret, and its clean-up
\* registered on the parent ctx.
scheduleDeadlineMicro(k, ctx, deadlineAt, now) ==
  IF ~NeedsTimer(k.m.deadlineAt[ctx], deadlineAt) THEN k
  ELSE Returning(onDidCancelMicro(scheduleWithTimeout(k.m, deadlineAt - now, k.ret),
                                  ctx, "clearTimer", k.ret, 0),
                 k.ret)

withDeadlineMicro(m, ctx, epochTimeMs, now) ==
  scheduleDeadlineMicro(
    childOfMicro(errorMicro(m, ctx), ctx, EffectiveDeadline(m.deadlineAt[ctx], epochTimeMs)),
    ctx, EffectiveDeadline(m.deadlineAt[ctx], epochTimeMs), now)

\* The host timer callback scheduled by withDeadline.
timerCallbackMicro(m, childCtx) ==
  cancelMicro(m, childCtx, NoReason, DeadlineExceededError(childCtx))

\* `undefined` as a value returned to the caller.
Undefined == 0

RECURSIVE getValue(_, _, _)
RECURSIVE hasValue(_, _, _)

getValue(m, this, key) ==
  IF m.key[this] = key THEN m.value[this]
  ELSE IF m.parent[this] # 0 THEN getValue(m, m.parent[this], key)
  ELSE Undefined

hasValue(m, this, key) ==
  \/ m.key[this] = key
  \/ IF m.parent[this] # 0 THEN hasValue(m, m.parent[this], key) ELSE FALSE

\* ------------------------------------------------------------ factory.ts
\* The ContextImpl of createContextImplementation: a stored reason, a
\* deadline, an Emitter of the reason (kListeners) and the host's setTimeout.

\* host.setTimeout(handler, timeout): no argument is handed over for the
\* handler; the handle is the index of the timer.
setTimeout(m, fn, a, timeout) ==
  [m EXCEPT !.timeouts =
      Append(@, [at |-> m.now + timeout, fn |-> fn, a |-> a, state |-> "pending"])]

\* host.clearTimeout(handle)
clearTimeoutHandle(m, handle) ==
  IF m.timeouts[handle].state = "pending"
  THEN [m EXCEPT !.timeouts[handle].state = "cleared"]
  ELSE m

\* The entry `fn` leaves in the invocation log when it is called.
FnCalled == [reg |-> 0, reason |-> NoReason]

\* `throw reason`
ReasonThrown(reason) == [name |-> "reason", by |-> reason, errors |-> <<>>]

\* Promise.race([cancelled, resultPromise]) is the promise after cancelled:
\* it settles as the first of the two that settles.
settleRace(m, race, state, value) ==
  IF race <= Len(m.promises) /\ m.promises[race].kind = "race"
  THEN settle(m, race, state, value)
  ELSE m

RECURSIVE staticCancel(_, _, _)
RECURSIVE fire(_, _, _)
RECURSIVE invoke(_, _, _)

\* `(reason?) => ContextImpl.cancel(context, reason ?? new CancelledError())`
\* A CancelledError made for a context that has a reason already is dropped
\* by ContextImpl.cancel and is not kept on the heap.
cancelClosure(m, context, reason) ==
  IF m.reason[context] # NoReason THEN m
  ELSE IF reason = NoReason
  THEN staticCancel(New(m, CancelledError(context, "", 0)), context, NewRef(m))
  ELSE staticCancel(m, context, reason)

\* A callback applied to its argument (NoReason when it is called with none):
\*   cancel        the cancel closure of context a
\*   user          registration a of the caller
\*   reject        (r) => { console.debug(...); reject(r) }  of promise a
\*   clearTimeout  () => host.clearTimeout(timerHandle)  of handle a
\*   timeout       () => cancel(new DeadlineExceededError())  of context a
invoke(m, l, reason) ==
  IF l.fn = "cancel" THEN cancelClosure(m, l.a, reason)
  ELSE IF l.fn = "user"
  THEN [m EXCEPT !.log = Append(@, [reg |-> l.a, reason |-> reason])]
  ELSE IF l.fn = "reject"
  THEN settleRace(settle(m, l.a, "rejected", reason), l.a + 1, "rejected", reason)
  ELSE IF l.fn = "clearTimeout" THEN clearTimeoutHandle(m, l.a)
  ELSE cancelClosure(New(m, DeadlineExceededError(l.a)), l.a, NewRef(m))

\* Emitter.fire(reason): the listeners in the order they were added.
fire(m, todo, reason) ==
  IF todo = <<>> THEN m
  ELSE fire(invoke(m, Head(todo), reason), Tail(todo), reason)

\* Emitter.dispose() and `context[kOnWillCancel] = undefined`
disposeEmitter(m, context) == [m EXCEPT !.listeners[context] = <<>>]

\* static cancel(context, reason)
staticCancel(m, context, reason) ==
  IF m.reason[context] # NoReason THEN m
  ELSE disposeEmitter(fire([m EXCEPT !.reason[context] = reason],
                           m.listeners[context], reason),
                      context)

\* get cancellationReason()
cancellationReason(m, this) ==
  IF m.reason[this] # NoReason THEN Ok(m, m.reason[this])
  ELSE IF Truthy(m.deadlineAt[this]) /\ m.now > m.deadlineAt[this]
  THEN Ok(staticCancel(New(m, DeadlineExceededError(this)), this, NewRef(m)),
          NewRef(m))
  ELSE Ok(m, NoReason)

\* The disposable an event returns: of a timer handle or of a listener.
TimeoutDisposable(handle) == [timeout |-> handle, ctx |-> 0, ref |-> 0]
ListenerDisposable(ctx, ref) == [timeout |-> 0, ctx |-> ctx, ref |-> ref]

\* get onDidCancel(), applied to a callback
onDidCancelEvent(m, this, fn, a) ==
  IF m.reason[this] # NoReason
  THEN Ok(setTimeout(m, fn, a, 0), TimeoutDisposable(Len(m.timeouts) + 1))
  ELSE Ok([m EXCEPT !.nextRef = m.nextRef + 1,
                    !.listeners[this] =
                       Append(@, WrappedCancellationListener(m.nextRef + 1, fn, a, 0))],
          ListenerDisposable(this, m.nextRef + 1))

disposeEvent(m, d) ==
  IF d.timeout # 0 THEN clearTimeoutHandle(m, d.timeout)
  ELSE dispose(m, d.ctx, d.ref)

\* new ContextImpl(host, { deadlineAt }); this ContextImpl keeps no parent
newContextImpl(m, deadlineAt) ==
  assignFields(m, NoReason, deadlineAt, NoKey, 0, 0)

\* withCancel(): `this.onDidCancel(cancel)` for the new context
factoryWithCancel(m, this) ==
  onDidCancelEvent(newContextImpl(m, m.deadlineAt[this]), this, "cancel",
                   Len(m.parent) + 1)

\* withDeadline(): the timer, set when the requested deadline is the one kept
setDeadlineTimer(k, context, deadlineAt, epochTimeMs, now) ==
  IF deadlineAt = epochTimeMs
  THEN onDidCancelEvent(setTimeout(k.m, "timeout", context, deadlineAt - now),
                        context, "clearTimeout", Len(k.m.timeouts) + 1)
  ELSE k

factoryWithDeadline(m, this, epochTimeMs, now) ==
  setDeadlineTimer(
    onDidCancelEvent(
      newContextImpl(m, EffectiveDeadline(m.deadlineAt[this], epochTimeMs)),
      this, "cancel", Len(m.parent) + 1),
    Len(m.parent) + 1, EffectiveDeadline(m.deadlineAt[this], epochTimeMs),
    epochTimeMs, now)

\* The host runs a timer that is due: handler(), once.
runTimeout(m, handle) ==
  invoke([m EXCEPT !.timeouts[handle].state = "ran"],
         [fn |-> m.timeouts[handle].fn, a |-> m.timeouts[handle].a], NoReason)

\* ------------------------------------------------------- runWithContext
\* fn(): what the caller's function does and returns.
\*   value     returns a value that is no thenable
\*   pending   returns a promise that is pending
\*   settled   returns a promise that is fulfilled already
FnKinds == {"value", "pending", "settled"}

callFn(m, ctx, fn) ==
  IF fn = "value" THEN Ok([m EXCEPT !.log = Append(@, FnCalled)], 0)
  ELSE Ok(NewPromise([m EXCEPT !.log = Append(@, FnCalled)], ctx, "result",
                     IF fn = "pending" THEN "pending" ELSE "fulfilled", 0),
          Len(m.promises) + 1)

\* `promise.catch(noop).then(handler!.dispose())`: the argument of then is
\* evaluated at once, which disposes of the handler; then returns `promise`.
disposeHandler(m, handler, promise) == Ok(disposeEvent(m, handler), promise)

\* Promise.race([cancelled, resultPromise]): settled as resultPromise is, if
\* that one is settled already.
race(h, ctx, result) ==
  disposeHandler(
    NewPromise(h.m, ctx, "race", h.m.promises[result].state,
               h.m.promises[result].value),
    h.ret, Len(h.m.promises) + 1)

\* `new Promise((_, reject) => { handler = ctx.onDidCancel(...) })`
raceWithCancelled(m, ctx, result) ==
  race(onDidCancelEvent(NewPromise(m, ctx, "cancelled", "pending", NoReason),
                        ctx, "reject", Len(m.promises) + 1),
       ctx, result)

\* runWithContext: what follows `const result = fn()`, which returned f.
afterFn(f, ctx) ==
  IF f.ret = 0 THEN f ELSE raceWithCancelled(f.m, ctx, f.ret)

\* runWithContext: what follows `const reason = ctx.cancellationReason`.
afterReason(r, ctx, fn) ==
  IF r.ret # NoReason THEN Throw(r.m, ReasonThrown(r.ret))
  ELSE afterFn(callFn(r.m, ctx, fn), ctx)

runWithContext(m, ctx, fn) == afterReason(cancellationReason(m, ctx), ctx, fn)

\* The caller's promise p is fulfilled; the race made for it follows.
resolveResult(m, p) ==
  settleRace(settle(m, p, "fulfilled", 0), p + 2, "fulfilled", 0)

\* How often, and with which reasons, registration reg was invoked in a log.
Calls(log, reg) == {i \in 1..Len(log) : log[i].reg = reg}

\* ------------------------------------------------------------- actions
Install(m) ==
  /\ kParent' = m.parent
  /\ kDeadlineAt' = m.deadlineAt
  /\ kKey' = m.key
  /\ kValue' = m.value
  /\ kCancellationReason' = m.reason
  /\ kListeners' = m.listeners
  /\ kAbortController' = m.ctl
  /\ abortControllers' = m.controllers
  /\ timerQueue' = m.timers
  /\ scheduleCalls' = m.scheduled
  /\ uncaughtExceptions' = m.uncaught
  /\ reasons' = m.reasons
  /\ nextRef' = m.nextRef
  /\ invocations' = m.log
  /\ promises' = m.promises
  /\ abortSignal' = m.signal
  /\ microtaskQueue' = m.microtasks
  /\ microtasksScheduled' = m.nextTask
  /\ emitterHandlers' = m.handlers
  /\ hostTimeouts' = m.timeouts
  /\ UNCHANGED <<currentTimeMs, hasUncaughtHandler, variant>>

Derived(r, by, requested, p) ==
  /\ Install(r.m)
  /\ made' = IF Len(r.m.parent) > Len(kParent)
             THEN Append(made, [by |-> by, requested |-> requested,
                                born |-> error(M, p).ret # NoReason])
             ELSE made
  /\ UNCHANGED registrations

\* The state after `ContextImpl.background(host)`, whichever ContextImpl.
Background ==
  /\ kParent = <<0>>
  /\ kDeadlineAt = <<NoDeadline>>
  /\ kKey = <<NoKey>>
  /\ kValue = <<0>>
  /\ kCancellationReason = <<NoReason>>
  /\ kListeners = <<<<>>>>
  /\ kAbortController = <<NoController>>
  /\ abortControllers = 0
  /\ currentTimeMs = 0
  /\ timerQueue = {}
  /\ scheduleCalls = 0
  /\ hasUncaughtHandler \in BOOLEAN
  /\ uncaughtExceptions = <<>>
  /\ reasons = <<>>
  /\ nextRef = 0
  /\ made = <<[by |-> "background", requested |-> NoDeadline, born |-> FALSE]>>
  /\ registrations = <<>>
  /\ invocations = <<>>
  /\ promises = <<>>
  /\ abortSignal = [aborted |-> FALSE, reason |-> "none", listeners |-> <<>>]
  /\ microtaskQueue = <<>>
  /\ microtasksScheduled = 0
  /\ emitterHandlers = <<>>
  /\ hostTimeouts = <<>>

Init == Background /\ variant = "sync"

WithCancel(p) ==
  /\ Len(kParent) < MaxContexts
  /\ Derived(withCancel(M, p), "withCancel", NoDeadline, p)

WithDeadline(p, epochTimeMs) ==
  /\ Len(kParent) < MaxContexts
  /\ Derived(withDeadline(M, p, epochTimeMs, currentTimeMs), "withDeadline", epochTimeMs, p)

\* withTimeout returns what withDeadline returns
WithTimeout(p, timeoutMs) ==
  /\ Len(kParent) < MaxContexts
  /\ Derived(withTimeout(M, p, timeoutMs), "withDeadline", currentTimeMs + timeoutMs, p)

WithValue(p, key, value) ==
  /\ Len(kParent) < MaxContexts
  /\ Derived(withValue(M, p, key, value), "withValue", NoDeadline, p)

HasCancelFunc(c) == made[c].by \in {"withCancel", "withDeadline"}

CancelCall(m, c, arg) ==
  IF made[c].by = "withCancel" THEN cancelFunc(m, c, arg) ELSE deadlineCancelFunc(m, c)

Cancel(c, arg) ==
  /\ HasCancelFunc(c)
  /\ Install(CancelCall(M, c, arg).m)
  /\ UNCHANGED <<made, registrations>>

ReadError(c) ==
  /\ Install(error(M, c).m)
  /\ UNCHANGED <<made, registrations>>

Registered(r, c, act) ==
  /\ Install(r.m)
  /\ registrations' = Append(registrations,
        [ctx |-> c, ref |-> r.ret, act |-> act, disposed |-> FALSE])
  /\ UNCHANGED made

Register(c, act) ==
  /\ Len(registrations) < MaxListeners
  /\ Registered(onDidCancel(M, c, "user", Len(registrations) + 1, act), c, act)

Dispose(i) ==
  /\ Install(dispose(M, registrations[i].ctx, registrations[i].ref))
  /\ registrations' = [registrations EXCEPT ![i].disposed = TRUE]
  /\ UNCHANGED made

ReadSignal(c) ==
  /\ \/ kAbortController[c].created
     \/ Cardinality({x \in Contexts : kAbortController[x].created}) < MaxSignals
  /\ Install(signal(M, c).m)
  /\ UNCHANGED <<made, registrations>>

Advance ==
  /\ currentTimeMs < MaxTime
  /\ currentTimeMs' = currentTimeMs + 1
  /\ UNCHANGED <<kParent, kDeadlineAt, kKey, kValue, kCancellationReason, kListeners,
                 kAbortController, abortControllers, timerQueue, scheduleCalls,
                 hasUncaughtHandler,
                 uncaughtExceptions,
                 reasons, nextRef, made, registrations, invocations, promises,
                 abortSignal, variant, microtaskQueue, microtasksScheduled,
                 emitterHandlers, hostTimeouts>>

FireTimer(t) ==
  /\ t.at <= currentTimeMs
  /\ Install(timerCallback([M EXCEPT !.timers = @ \ {t}], t.ctx).m)
  /\ UNCHANGED <<made, registrations>>

Next ==
  \/ \E p \in Contexts : WithCancel(p)
  \/ \E p \in Contexts, d \in Timestamps : WithDeadline(p, d)
  \/ \E p \in Contexts, t \in Timestamps : WithTimeout(p, t)
  \/ \E p \in Contexts, k \in KeySet, v \in ValueSet : WithValue(p, k, v)
  \/ \E c \in Contexts : Cancel(c, "none")
  \/ \E c \in Contexts : ReadError(c)
  \/ \E c \in Contexts, act \in ListenerActs : Register(c, act)
  \/ \E i \in 1..Len(registrations) : Dispose(i)
  \/ \E c \in Contexts : ReadSignal(c)
  \/ Advance
  \/ \E t \in timerQueue : FireTimer(t)

Spec == Init /\ [][Next]_vars

\* ------------------------------------------- listeners, several of them
\* A second specification for what happens inside notify cycles: up to
\* MaxRegistrations listeners, which may throw or call back into the API.
RegisterMore(c, act) ==
  /\ Len(registrations) < MaxRegistrations
  /\ Registered(onDidCancel(M, c, "user", Len(registrations) + 1, act), c, act)

RegisterReentrant(c, target) ==
  /\ Len(registrations) < MaxRegistrations
  /\ HasCancelFunc(target)
  /\ Registered(onDidCancel(M, c, "reenter", Len(registrations) + 1, target), c, "reenter")

NextNotify ==
  \/ \E p \in Contexts : WithCancel(p)
  \/ \E p \in Contexts : WithDeadline(p, MaxTime)
  \/ \E c \in Contexts : Cancel(c, "none")
  \/ \E c \in Contexts : ReadError(c)
  \/ \E c \in Contexts, act \in ListenerActs : RegisterMore(c, act)
  \/ \E c \in Contexts, target \in Contexts : RegisterReentrant(c, target)
  \/ \E i \in 1..Len(registrations) : Dispose(i)
  \/ Advance
  \/ \E t \in timerQueue : FireTimer(t)

SpecNotify == Init /\ [][NextNotify]_vars

\* ------------------------------------------------------- awaiting a context
\* A fourth specification for done() and then(): up to MaxPromises promises on
\* contexts that are cancelled explicitly, through a parent or by a deadline,
\* with a listener that may throw.
MaxPromises == 2

Done(c) ==
  /\ Len(promises) < MaxPromises
  /\ Install(done(M, c).m)
  /\ UNCHANGED <<made, registrations>>

Then(c) ==
  /\ Len(promises) < MaxPromises
  /\ Install(then(M, c).m)
  /\ UNCHANGED <<made, registrations>>

NextAwait ==
  \/ \E p \in Contexts : WithCancel(p)
  \/ \E p \in Contexts : WithDeadline(p, MaxTime)
  \/ \E c \in Contexts : Cancel(c, "none")
  \/ \E c \in Contexts : ReadError(c)
  \/ \E c \in Contexts : Register(c, "throw")
  \/ \E c \in Contexts : Done(c)
  \/ \E c \in Contexts : Then(c)
  \/ Advance
  \/ \E t \in timerQueue : FireTimer(t)

SpecAwait == Init /\ [][NextAwait]_vars

\* ------------------------------------------------------- abort signals
\* A fifth specification for withAbortSignal: contexts derived from a signal
\* of the caller's own controller, which may be aborted at any time, next to
\* cancellation through parents and deadlines, listeners and ctx.signal.
WithAbortSignal(p) ==
  /\ Len(kParent) < MaxContexts
  /\ Derived(withAbortSignal(M, p), "withAbortSignal", NoDeadline, p)

AbortExternal(reason) ==
  /\ ~abortSignal.aborted
  /\ Install(abortController(M, reason))
  /\ UNCHANGED <<made, registrations>>

NextAbort ==
  \/ \E p \in Contexts : WithAbortSignal(p)
  \/ \E p \in Contexts : WithDeadline(p, MaxTime)
  \/ \E c \in Contexts : Cancel(c, "none")
  \/ \E c \in Contexts : ReadError(c)
  \/ \E c \in Contexts, act \in ListenerActs : Register(c, act)
  \/ \E c \in Contexts : ReadSignal(c)
  \/ \E reason \in {"none", "error"} : AbortExternal(reason)
  \/ Advance
  \/ \E t \in timerQueue : FireTimer(t)

SpecAbort == Init /\ [][NextAbort]_vars

\* ------------------------------------------------------- the two variants
\* A sixth specification: the program is built with either ContextImpl, and
\* listeners are registered and disposed around cancellation; with microtask
\* notify the host runs the queued microtasks one at a time, between which
\* the caller may act, the listeners throw, and deadlines are set on the root.
DerivedMicro(r, by, requested, p) ==
  /\ Install(r.m)
  /\ made' = Append(made, [by |-> by, requested |-> requested,
                           born |-> errorMicro(M, p).ret # NoReason])
  /\ UNCHANGED registrations

WithCancelMicro(p) ==
  /\ Len(kParent) < MaxContexts
  /\ DerivedMicro(withCancelMicro(M, p), "withCancel", NoDeadline, p)

WithDeadlineMicro(p, epochTimeMs) ==
  /\ Len(kParent) < MaxContexts
  /\ DerivedMicro(withDeadlineMicro(M, p, epochTimeMs, currentTimeMs),
                  "withDeadline", epochTimeMs, p)

CancelCallMicro(m, c, arg) ==
  IF made[c].by = "withCancel" THEN cancelFuncMicro(m, c, arg)
  ELSE deadlineCancelFuncMicro(m, c)

CancelMicro(c, arg) ==
  /\ HasCancelFunc(c)
  /\ Install(CancelCallMicro(M, c, arg).m)
  /\ UNCHANGED <<made, registrations>>

ReadErrorMicro(c) ==
  /\ Install(errorMicro(M, c).m)
  /\ UNCHANGED <<made, registrations>>

\* late records, at dispose, that the context had a reason and the listener
\* had not been invoked.
RegisteredMicro(r, c, act) ==
  /\ Install(r.m)
  /\ registrations' = Append(registrations,
        [ctx |-> c, ref |-> r.ret.ref, task |-> r.ret.task, act |-> act,
         disposed |-> FALSE, late |-> FALSE])
  /\ UNCHANGED made

RegisterMicro(c, act) ==
  /\ Len(registrations) < MaxRegistrations
  /\ RegisteredMicro(onDidCancelMicro(M, c, "user", Len(registrations) + 1, act), c, act)

DisposeMicro(i) ==
  /\ Install(disposeMicro(M, registrations[i].ctx,
                          DisposableOf(registrations[i].ref, registrations[i].task)))
  /\ registrations' =
       [registrations EXCEPT
          ![i].disposed = TRUE,
          ![i].late = \/ @
                      \/ /\ ~registrations[i].disposed
                         /\ kCancellationReason[registrations[i].ctx] # NoReason
                         /\ Calls(invocations, i) = {}]
  /\ UNCHANGED made

RunMicrotask ==
  /\ Len(microtaskQueue) > 0
  /\ Install(runMicrotask([M EXCEPT !.microtasks = Tail(@)], Head(microtaskQueue)))
  /\ UNCHANGED <<made, registrations>>

FireTimerMicro(t) ==
  /\ t.at <= currentTimeMs
  /\ Install(timerCallbackMicro([M EXCEPT !.timers = @ \ {t}], t.ctx).m)
  /\ UNCHANGED <<made, registrations>>

NextVariants ==
  \/ \E p \in Contexts : variant = "sync" /\ WithCancel(p)
  \/ \E c \in Contexts : variant = "sync" /\ Cancel(c, "none")
  \/ \E c \in Contexts, act \in ListenerActs : variant = "sync" /\ RegisterMore(c, act)
  \/ \E i \in 1..Len(registrations) : variant = "sync" /\ Dispose(i)
  \/ \E p \in Contexts : variant = "microtask" /\ WithCancelMicro(p)
  \/ variant = "microtask" /\ WithDeadlineMicro(Root, MaxTime)
  \/ \E c \in Contexts : variant = "microtask" /\ CancelMicro(c, "none")
  \/ \E c \in Contexts : variant = "microtask" /\ ReadErrorMicro(c)
  \/ \E c \in Contexts : variant = "microtask" /\ RegisterMicro(c, "throw")
  \/ \E i \in 1..Len(registrations) : variant = "microtask" /\ DisposeMicro(i)
  \/ variant = "microtask" /\ RunMicrotask
  \/ \E t \in timerQueue : variant = "microtask" /\ FireTimerMicro(t)
  \/ Advance

\* The program is built with one of the two classes.
InitVariants == Background /\ variant \in {"sync", "microtask"}

SpecVariants == InitVariants /\ [][NextVariants]_vars

\* ------------------------------------------------------- nested registration
\* A seventh specification: listeners that register another listener on
\* their own context when they are invoked, next to plain ones.
RegisterNesting(c, inner) ==
  /\ Len(registrations) < MaxRegistrations
  /\ Registered(onDidCancel(M, c, IF inner = "throw" THEN "nestThrow" ELSE "nest",
                            Len(registrations) + 1, c),
                c, IF inner = "throw" THEN "nestThrow" ELSE "nest")

NextNested ==
  \/ \E p \in Contexts : WithCancel(p)
  \/ \E p \in Contexts : WithDeadline(p, MaxTime)
  \/ \E c \in Contexts : Cancel(c, "none")
  \/ \E c \in Contexts : ReadError(c)
  \/ \E c \in Contexts, act \in ListenerActs : RegisterMore(c, act)
  \/ \E c \in Contexts, inner \in ListenerActs : RegisterNesting(c, inner)
  \/ Advance
  \/ \E t \in timerQueue : FireTimer(t)

SpecNested == Init /\ [][NextNested]_vars

\* ------------------------------------------------------- values on chains
\* A third specification for value lookup: chains of up to MaxValueContexts
\* contexts, two keys besides `undefined`, two values.
LookupKeys == {NoKey, 1, 2}
BoundValues == {1, 2}

BindValue(p, key, value) ==
  /\ Len(kParent) < MaxValueContexts
  /\ Derived(withValue(M, p, key, value), "withValue", NoDeadline, p)

DeriveCancel(p) ==
  /\ Len(kParent) < MaxValueContexts
  /\ Derived(withCancel(M, p), "withCancel", NoDeadline, p)

DeriveDeadline(p) ==
  /\ Len(kParent) < MaxValueContexts
  /\ Derived(withDeadline(M, p, MaxTime, currentTimeMs), "withDeadline", MaxTime, p)

NextValues ==
  \/ \E p \in Contexts, k \in LookupKeys, v \in BoundValues : BindValue(p, k, v)
  \/ \E p \in Contexts : DeriveCancel(p)
  \/ \E p \in Contexts : DeriveDeadline(p)
  \/ \E c \in Contexts : Cancel(c, "none")

SpecValues == Init /\ [][NextValues]_vars

\* ------------------------------------------------------- event emitters
\* A tenth specification for withEventEmitter: contexts derived from one
\* emitter for one or two event names, events emitted under those and other
\* names, parents cancelled before and after.
EventNames == {"close", "error", "data", UndefinedEvent}
EventLists == {<<"close">>, <<"close", "error">>}

WithEventEmitter(p, eventNames) ==
  /\ Len(kParent) < MaxContexts
  /\ Install(withEventEmitter(M, p, eventNames).m)
  /\ made' = Append(made, [by |-> "withEventEmitter", requested |-> NoDeadline,
                           born |-> error(M, p).ret # NoReason,
                           names |-> eventNames])
  /\ UNCHANGED registrations

Emit(name) ==
  /\ Install(emit(M, name).m)
  /\ UNCHANGED <<made, registrations>>

NextEmitter ==
  \/ \E p \in Contexts : WithCancel(p)
  \/ \E p \in Contexts, eventNames \in EventLists : WithEventEmitter(p, eventNames)
  \/ \E c \in Contexts : Cancel(c, "none")
  \/ \E c \in Contexts, act \in ListenerActs : Register(c, act)
  \/ \E name \in EventNames : Emit(name)

SpecEmitter == Init /\ [][NextEmitter]_vars

\* ------------------------------------------------------- cascades
\* An eighth specification for cascades over several children: a cancellable
\* parent with two children needs four contexts; listeners may throw or read
\* error() of another context from inside.
RegisterPeek(c, target) ==
  /\ Len(registrations) < MaxRegistrations
  /\ Registered(onDidCancel(M, c, "peek", Len(registrations) + 1, target), c, "peek")

NextCascade ==
  \/ \E p \in Contexts : DeriveCancel(p)
  \/ \E c \in Contexts : Cancel(c, "none")
  \/ \E c \in Contexts : ReadError(c)
  \/ \E c \in Contexts, act \in ListenerActs : RegisterMore(c, act)
  \/ \E c \in Contexts, target \in Contexts : RegisterPeek(c, target)

SpecCascade == Init /\ [][NextCascade]_vars

\* ------------------------------------------------------- timers that fire
\* A ninth specification, for what the host's timers bring about on their
\* own: no caller reads error(), and host time advances up to MaxTime.
NextTimers ==
  \/ \E p \in Contexts : WithCancel(p)
  \/ \E p \in Contexts, d \in Timestamps : WithDeadline(p, d)
  \/ \E p \in Contexts, k \in KeySet, v \in ValueSet : WithValue(p, k, v)
  \/ \E c \in Contexts : Cancel(c, "none")
  \/ \E c \in Contexts, act \in ListenerActs : Register(c, act)
  \/ Advance
  \/ \E t \in timerQueue : FireTimer(t)

SpecTimers == Init /\ [][NextTimers]_vars /\ WF_vars(Advance)

\* ------------------------------------------------------- the factory
\* An eleventh specification for the ContextImpl of factory.ts and for
\* runWithContext over it: contexts derived with withCancel and withDeadline,
\* callbacks registered before and after cancellation, a function run with a
\* context, the host's timers run when they are due.
MaxRuns == 1

FactoryDerived(r, by, requested) ==
  /\ Install(r.m)
  /\ made' = Append(made, [by |-> by, requested |-> requested, born |-> FALSE])
  /\ UNCHANGED registrations

FactoryWithCancel(p) ==
  /\ Len(kParent) < MaxContexts
  /\ FactoryDerived(factoryWithCancel(M, p), "withCancel", NoDeadline)

FactoryWithDeadline(p, epochTimeMs) ==
  /\ Len(kParent) < MaxContexts
  /\ FactoryDerived(factoryWithDeadline(M, p, epochTimeMs, currentTimeMs),
                    "withDeadline", epochTimeMs)

\* cancel(), called with no argument
FactoryCancel(c) ==
  /\ HasCancelFunc(c)
  /\ Install(cancelClosure(M, c, NoReason))
  /\ UNCHANGED <<made, registrations>>

\* ctx.onDidCancel(callback); late records that ctx had a reason by then, and
\* ref is then the handle of the timer.
FactoryRegister(c) ==
  /\ Len(registrations) < MaxListeners
  /\ Install(onDidCancelEvent(M, c, "user", Len(registrations) + 1).m)
  /\ registrations' = Append(registrations,
        [ctx |-> c, act |-> "noop", disposed |-> FALSE,
         late |-> kCancellationReason[c] # NoReason,
         ref |-> IF kCancellationReason[c] # NoReason
                 THEN Len(hostTimeouts) + 1 ELSE nextRef + 1])
  /\ UNCHANGED made

RunWithContext(c, fn) ==
  /\ Cardinality(Calls(invocations, FnCalled.reg)) < MaxRuns
  /\ Install(runWithContext(M, c, fn).m)
  /\ UNCHANGED <<made, registrations>>

ResolveResult(p) ==
  /\ promises[p].kind = "result"
  /\ promises[p].state = "pending"
  /\ Install(resolveResult(M, p))
  /\ UNCHANGED <<made, registrations>>

RunTimeout(handle) ==
  /\ hostTimeouts[handle].state = "pending"
  /\ hostTimeouts[handle].at <= currentTimeMs
  /\ Install(runTimeout(M, handle))
  /\ UNCHANGED <<made, registrations>>

NextFactory ==
  \/ \E p \in Contexts : FactoryWithCancel(p)
  \/ \E p \in Contexts : FactoryWithDeadline(p, MaxTime)
  \/ \E c \in Contexts : FactoryCancel(c)
  \/ \E c \in Contexts : FactoryRegister(c)
  \/ \E c \in Contexts, fn \in FnKinds : RunWithContext(c, fn)
  \/ \E p \in 1..Len(promises) : ResolveResult(p)
  \/ \E handle \in 1..Len(hostTimeouts) : RunTimeout(handle)
  \/ Advance

SpecFactory == Init /\ [][NextFactory]_vars

TypeOK ==
  /\ Len(kParent) <= MaxContexts
  /\ \A c \in Contexts : kParent[c] < c

\* ------------------------------------------------------------ helpers
RECURSIVE Ancestors(_)
Ancestors(c) ==
  IF kParent[c] = 0 THEN {} ELSE {kParent[c]} \cup Ancestors(kParent[c])

Descendants(p) == {c \in Contexts : p \in Ancestors(c)}

UserListenersOf(c) ==
  {kListeners[c][i].a :
     i \in {j \in 1..Len(kListeners[c]) : kListeners[c][j].fn \in {"user", "reenter"}}}

OwnReason(c, name) ==
  /\ kCancellationReason[c] # NoReason
  /\ reasons[kCancellationReason[c]].name = name
  /\ reasons[kCancellationReason[c]].origin = c

\* ------------------------------------------------------------- claims

\* C1: reason stability.  A call of error() that returns a reason leaves it
\* stored; from then on, whatever step is taken, the stored reference is the
\* same and error() returns that reference without throwing.
C1_ReasonStability ==
  [][\A c \in Contexts :
       /\ LET e == error(M, c)
          IN e.ret # NoReason => e.m.reason[c] = e.ret
       /\ kCancellationReason[c] # NoReason =>
            /\ kCancellationReason'[c] = kCancellationReason[c]
            /\ LET e == error(M', c)
               IN ~Threw(e) /\ e.ret = kCancellationReason[c] /\ e.m = M']_vars

\* A context cancelled by its cancel function before its deadline, whose
\* deadline has passed since: it still holds its Cancelled reason.
C1_Witness ==
  \E c \in Contexts :
    /\ OwnReason(c, "CancelledError")
    /\ kDeadlineAt[c] # NoDeadline
    /\ currentTimeMs >= kDeadlineAt[c]

\* C2: cancel is idempotent.  Calling the cancel function of a context that
\* has a reason changes nothing at all: not the reason, not a listener list,
\* not the invocation log, not what the host was told, and it does not throw.
C2_CancelIdempotent ==
  \A c \in Contexts :
    HasCancelFunc(c) /\ kCancellationReason[c] # NoReason =>
      \A arg \in CancelArgs :
        LET r == CancelCall(M, c, arg)
        IN ~Threw(r) /\ r.m = M

\* A context that was cancelled by its own cancel function, with a listener
\* that was invoked by that cancellation.
C2_Witness ==
  \E c \in Contexts :
    /\ HasCancelFunc(c)
    /\ OwnReason(c, "CancelledError")
    /\ \E i \in 1..Len(registrations) :
         /\ registrations[i].ctx = c
         /\ registrations[i].ref # 0
         /\ Calls(invocations, i) # {}

Read(m, c) ==
  LET e == error(m, c) IN IF Threw(e) THEN error(e.m, c) ELSE e

\* C4 as stated: after cancel(P), error() of every child of P, in whatever
\* state the child was, returns the reference error() of P returns.
C4_Original ==
  \A P \in Contexts :
    HasCancelFunc(P) =>
      LET r == CancelCall(M, P, "none")
      IN \A C \in Contexts :
           kParent[C] = P =>
             LET e1 == Read(r.m, C)
                 e2 == Read(e1.m, P)
             IN e1.ret # NoReason /\ e1.ret = e2.ret

\* C4, amended: after cancel(P), error() of every child of P that had no
\* reason when cancel was called returns the reference error() of P returns,
\* in whichever order the two are read; a child that had a reason keeps it.
C4_ChildTakesParentReason ==
  \A P \in Contexts :
    HasCancelFunc(P) =>
      LET r == CancelCall(M, P, "none")
      IN \A C \in Contexts :
           kParent[C] = P =>
             LET e1 == Read(r.m, C)
                 e2 == Read(e1.m, P)
                 f1 == Read(r.m, P)
                 f2 == Read(f1.m, C)
             IN IF kCancellationReason[C] = NoReason
                THEN /\ e1.ret # NoReason /\ e1.ret = e2.ret
                     /\ f1.ret # NoReason /\ f1.ret = f2.ret
                ELSE e1.ret = kCancellationReason[C] /\ f2.ret = kCancellationReason[C]

\* P holds the Cancelled reason its cancel function made and a child of P
\* holds the same reference.
C4_Witness ==
  \E C \in Contexts :
    /\ kParent[C] # 0
    /\ OwnReason(kParent[C], "CancelledError")
    /\ kCancellationReason[C] = kCancellationReason[kParent[C]]
    /\ ~made[C].born

\* The reason object error() of x yields on heap m (NoObject when unset).
ReasonObject(m, x) ==
  LET e == Read(m, x) IN IF e.ret = NoReason THEN NoObject ELSE e.m.reasons[e.ret]

\* Context x is not touched by a call that turns the heap into m2: error()
\* yields the same as before (the same reference when one was stored, an equal
\* object otherwise) and none of the listeners registered on it was invoked.
Untouched(m2, x) ==
  /\ kCancellationReason[x] # NoReason => m2.reason[x] = kCancellationReason[x]
  /\ ReasonObject(m2, x) = ReasonObject(M, x)
  /\ \A i \in 1..Len(registrations) :
       registrations[i].ctx = x => Calls(m2.log, i) = Calls(invocations, i)

Outside(c) == Contexts \ ({c} \cup Descendants(c))

DueTimers == {t \in timerQueue : t.at <= currentTimeMs}

\* C5 as stated: cancelling a context, by its cancel function or by its
\* deadline timer, touches no context outside its own subtree.
C5_Original ==
  /\ \A c \in Contexts :
       HasCancelFunc(c) =>
         \A x \in Outside(c) : Untouched(CancelCall(M, c, "none").m, x)
  /\ \A t \in DueTimers :
       \A x \in Outside(t.ctx) :
         Untouched(timerCallback([M EXCEPT !.timers = @ \ {t}], t.ctx).m, x)

\* An ancestor whose deadline has passed and whose reason is not yet stored.
Lapsed(a) ==
  /\ kCancellationReason[a] = NoReason
  /\ kDeadlineAt[a] # NoDeadline
  /\ currentTimeMs >= kDeadlineAt[a]

NoLapsedAncestor(c) == \A a \in Ancestors(c) : ~Lapsed(a)

\* C5, amended: cancelling a context, by its cancel function or by its
\* deadline timer, touches no context outside its own subtree, provided no
\* ancestor of it has a deadline that has passed without having been observed.
C5_NoUpwardFlow ==
  /\ \A c \in Contexts :
       HasCancelFunc(c) /\ NoLapsedAncestor(c) =>
         \A x \in Outside(c) : Untouched(CancelCall(M, c, "none").m, x)
  /\ \A t \in DueTimers :
       NoLapsedAncestor(t.ctx) =>
         \A x \in Outside(t.ctx) :
           Untouched(timerCallback([M EXCEPT !.timers = @ \ {t}], t.ctx).m, x)

\* A cancelled context under a parent that was derived itself, has no reason
\* and still holds a listener that was never invoked.
C5_Witness ==
  \E c \in Contexts :
    /\ kCancellationReason[c] # NoReason
    /\ reasons[kCancellationReason[c]].origin = c
    /\ kParent[c] \notin {0, Root}
    /\ kCancellationReason[kParent[c]] = NoReason
    /\ \E i \in 1..Len(registrations) :
         /\ registrations[i].ctx = kParent[c]
         /\ registrations[i].ref # 0
         /\ ~registrations[i].disposed
         /\ Calls(invocations, i) = {}

\* C6: the root is never cancelled: it stores no reason, error() returns
\* unset, and its signal, read before or now, is not aborted.
C6_RootNeverCancelled ==
  /\ kCancellationReason[Root] = NoReason
  /\ error(M, Root) = Ok(M, NoReason)
  /\ ~kAbortController[Root].aborted
  /\ ~signal(M, Root).m.ctl[Root].aborted

\* Children of the root were cancelled, one of them by its deadline, and the
\* root's signal has been read.
C6_Witness ==
  /\ kAbortController[Root].created
  /\ \E c \in Contexts : kParent[c] = Root /\ OwnReason(c, "DeadlineExceededError")

\* Everything each constructor returns when applied to p in the current state.
DerivedFrom(p) ==
  {withCancel(M, p)}
    \cup {withDeadline(M, p, d, currentTimeMs) : d \in Timestamps}
    \cup {withTimeout(M, p, t) : t \in Timestamps}
    \cup {withValue(M, p, k, v) : k \in KeySet, v \in ValueSet}

NoExplicitCancel(c) ==
  \A a \in {c} \cup Ancestors(c) : ~isCancelledError(kCancellationReason[a])

C9_DeadlineInheritance ==
  \A c \in Contexts \ {Root} :
    LET dp == kDeadlineAt[kParent[c]]
    IN /\ made[c].by = "withDeadline" =>
            kDeadlineAt[c] = IF dp = NoDeadline THEN made[c].requested
                             ELSE Min(dp, made[c].requested)
       /\ made[c].by \in {"withCancel", "withValue"} => kDeadlineAt[c] = dp
       /\ dp # NoDeadline => kDeadlineAt[c] # NoDeadline /\ kDeadlineAt[c] <= dp

\* The deadline a context is entitled to: the least of the deadlines
\* requested along its chain (NoDeadline when none was requested).
RECURSIVE RequestedDeadline(_)
RequestedDeadline(c) ==
  IF kParent[c] = 0 THEN NoDeadline
  ELSE LET dp == RequestedDeadline(kParent[c])
           d == made[c].requested
       IN IF d = NoDeadline THEN dp ELSE IF dp = NoDeadline THEN d ELSE Min(dp, d)

C10_WitnessShared ==
  \E c \in Contexts :
    /\ made[c].by = "withDeadline"
    /\ kDeadlineAt[kParent[c]] # NoDeadline
    /\ made[c].requested >= kDeadlineAt[kParent[c]]
    /\ OwnReason(kParent[c], "DeadlineExceededError")
    /\ kCancellationReason[c] = kCancellationReason[kParent[c]]
    /\ ~made[c].born

\* C11 as stated: a deadline timer is disposed upon any cancellation of its
\* owner: no timer is pending in the host for a context that has a reason.
C11_TimerDisposed ==
  \A t \in timerQueue : kCancellationReason[t.ctx] = NoReason

\* C12 as stated: withDeadline calls host.scheduleWithTimeout exactly once
\* when the child's effective deadline is strictly sooner than the parent's
\* or the parent has none, and not at all when the two are equal; the timer
\* is due at the effective deadline (delay = effective deadline - now).
C12_TimerScheduling ==
  \A p \in Contexts, d \in Timestamps :
    LET r == withDeadline(M, p, d, currentTimeMs)
        dp == kDeadlineAt[p]
    IN ~Threw(r) =>
         LET eff == r.m.deadlineAt[r.ret]
             n == r.m.scheduled - scheduleCalls
         IN /\ (dp = NoDeadline \/ eff < dp) =>
                 /\ n = 1
                 /\ r.m.reason[p] = NoReason =>
                      r.m.timers \ timerQueue = {[ctx |-> r.ret, at |-> eff]}
            /\ (dp # NoDeadline /\ eff = dp) => n = 0

\* C13: at-most-once delivery.  Whatever the interleaving of cancel calls,
\* timer firings, error() reads, cascades and calls made from inside
\* listeners, no registration has been invoked more than once.
C13_AtMostOnce ==
  \A i \in 1..Len(registrations) : Cardinality(Calls(invocations, i)) <= 1

\* A listener that called cancel from inside its own notify cycle was invoked
\* once, and so was another listener registered on the same context.
C13_Witness ==
  \E i \in 1..Len(registrations), j \in 1..Len(registrations) :
    /\ i # j
    /\ registrations[i].act = "reenter"
    /\ registrations[i].ref # 0
    /\ registrations[j].ref # 0
    /\ registrations[j].ctx = registrations[i].ctx
    /\ Calls(invocations, i) # {}
    /\ Calls(invocations, j) # {}

\* The listener list of x without the wrapper ref.
Without(list, ref) == SelectSeq(list, LAMBDA l : l.ref # ref)

\* C14: a registration disposed before it was invoked is never invoked in any
\* later step, however its context comes to be cancelled; and disposing a
\* pending registration removes that one wrapper from its context's list and
\* changes nothing else, also when the same function is registered twice.
C14_DisposedNeverInvoked ==
  [][/\ \A i \in 1..Len(registrations) :
          registrations[i].disposed /\ Calls(invocations, i) = {} =>
            Calls(invocations', i) = {}
     /\ \A i \in 1..Len(registrations) :
          registrations[i].ref # 0 =>
            dispose(M, registrations[i].ctx, registrations[i].ref) =
              [M EXCEPT !.listeners[registrations[i].ctx] =
                          Without(@, registrations[i].ref)]]_vars

\* Two registrations of the same function on one context: the one that was
\* disposed was not invoked, the other one was, by the context's cancellation.
C14_Witness ==
  \E i \in 1..Len(registrations), j \in 1..Len(registrations) :
    /\ i # j
    /\ registrations[i].ctx = registrations[j].ctx
    /\ registrations[i].act = registrations[j].act
    /\ registrations[i].ref # 0 /\ registrations[j].ref # 0
    /\ registrations[j].disposed /\ Calls(invocations, j) = {}
    /\ ~registrations[i].disposed /\ Calls(invocations, i) # {}
    /\ kCancellationReason[registrations[i].ctx] # NoReason

\* C15 as stated: when error() of a context yields a reason (explicit cancel,
\* ancestor, construction from a cancelled parent, deadline passed),
\* onDidCancel(listener) invokes listener exactly once before it returns, with
\* the reference error() returns, and does not add it to the listener list.
C15_RegisterOnCancelled ==
  \A c \in Contexts :
    Read(M, c).ret # NoReason =>
      LET new == Len(registrations) + 1
          r == onDidCancel(M, c, "user", new, "noop")
      IN /\ Cardinality(Calls(r.m.log, new)) = 1
         /\ \A j \in Calls(r.m.log, new) : r.m.log[j].reason = Read(r.m, c).ret
         /\ \A k \in 1..Len(r.m.listeners[c]) :
              ~(r.m.listeners[c][k].fn = "user" /\ r.m.listeners[c][k].a = new)

\* The invocations a call added to the log.
NewLog(m2) == SubSeq(m2.log, Len(invocations) + 1, Len(m2.log))

\* The registrations pending on x, in the order of its listener list.
Pending(x) ==
  SelectSeq(kListeners[x], LAMBDA l : l.fn \in {"user", "reenter"})

\* The calls that start a notify cycle from the current state: a cancel
\* function, a due timer's callback, a read of error().
Triggers ==
  {CancelCall(M, c, "none") : c \in {x \in Contexts : HasCancelFunc(x)}}
    \cup {timerCallback([M EXCEPT !.timers = @ \ {t}], t.ctx) : t \in DueTimers}
    \cup {error(M, c) : c \in Contexts}

\* In the invocations added by a call, the pending registrations of x that
\* were invoked appear in the order of x's list, each with x's reason.
InListOrder(m2, x) ==
  LET new == NewLog(m2)
      p == Pending(x)
  IN /\ \A i \in 1..Len(new) :
          (\E k \in 1..Len(p) : p[k].a = new[i].reg) => new[i].reason = m2.reason[x]
     /\ \A k1 \in 1..Len(p), k2 \in 1..Len(p) :
          k1 < k2 =>
            \A i1 \in 1..Len(new), i2 \in 1..Len(new) :
              new[i1].reg = p[k1].a /\ new[i2].reg = p[k2].a => i1 < i2

\* C16: the listener list of a context holds its pending registrations in
\* the order they were registered, and a notify cycle, however it is started,
\* invokes those it invokes in that order, each with the context's reason
\* reference.
C16_RegistrationOrder ==
  /\ \A x \in Contexts :
       \A k1 \in 1..Len(Pending(x)), k2 \in 1..Len(Pending(x)) :
         k1 < k2 => Pending(x)[k1].a < Pending(x)[k2].a
  /\ \A r \in Triggers : \A x \in Contexts : InListOrder(r.m, x)

\* Two registrations on one context were invoked by its cancellation, the
\* earlier registration first.
C16_Witness ==
  \E i \in 1..Len(invocations), j \in 1..Len(invocations) :
    /\ i < j
    /\ invocations[i].reg < invocations[j].reg
    /\ registrations[invocations[i].reg].ctx = registrations[invocations[j].reg].ctx
    /\ registrations[invocations[i].reg].ref # 0
    /\ registrations[invocations[j].reg].ref # 0
    /\ invocations[i].reason = invocations[j].reason

\* The contexts that had no reason and have one on heap m2.
Changed(m2) ==
  {x \in Contexts : kCancellationReason[x] = NoReason /\ m2.reason[x] # NoReason}

\* The pending registrations of x that throw, in list order.
Throwers(x) ==
  SelectSeq(Pending(x), LAMBDA l : l.fn = "user" /\ l.b = "throw")

\* What the cycle of x owes the host: the one error, or an Aggregate of all.
Report(x) ==
  IF Len(Throwers(x)) = 1 THEN UserError(Throwers(x)[1].a)
  ELSE AggregateError([k \in 1..Len(Throwers(x)) |-> UserError(Throwers(x)[k].a)])

NewUncaught(m2) ==
  SubSeq(m2.uncaught, Len(uncaughtExceptions) + 1, Len(m2.uncaught))

\* C17: listener failures are reported once per notify cycle.  On a host
\* with onUncaughtException, for every call that starts cycles: every pending
\* listener of every context that gets its reason is invoked once, throwing
\* ones before it or not; the host receives, for each such context, nothing
\* when none of its listeners threw, that error when one threw, and one
\* Aggregate of the errors in invocation order when several threw; it
\* receives nothing else, and the call does not throw.
C17_ReportedOncePerCycle ==
  hasUncaughtHandler =>
    \A r \in Triggers :
      /\ ~Threw(r)
      /\ \A x \in Changed(r.m) :
           \A k \in 1..Len(Pending(x)) :
             Cardinality(Calls(NewLog(r.m), Pending(x)[k].a)) = 1
      /\ LET owed == {Report(x) : x \in {y \in Changed(r.m) : Len(Throwers(y)) > 0}}
             got == NewUncaught(r.m)
         IN /\ {got[i] : i \in 1..Len(got)} = owed
            /\ Len(got) = Cardinality({y \in Changed(r.m) : Len(Throwers(y)) > 0})

\* The host was handed one Aggregate holding the errors of two listeners.
C17_Witness ==
  /\ hasUncaughtHandler
  /\ \E i \in 1..Len(uncaughtExceptions) :
       /\ uncaughtExceptions[i].name = "AggregateError"
       /\ Len(uncaughtExceptions[i].errors) = 2

\* The current heap on a host with (h = TRUE) or without onUncaughtException.
OnHost(h) == [M EXCEPT !.handler = h]

\* A heap without what tells the two kinds of host apart.
Transition(m) == [m EXCEPT !.handler = TRUE, !.uncaught = <<>>]

\* r0 is a cancel call on c on a host without handler, r1 the same call on a
\* host with one: r0 made the same transition as r1, it threw exactly when r1
\* reported something (the same error when r1 reported one), and the
\* transition is complete.
RethrownAfterTransition(r0, r1, c) ==
  /\ Transition(r0.m) = Transition(r1.m)
  /\ r0.m.uncaught = uncaughtExceptions
  /\ Threw(r0) <=> Len(NewUncaught(r1.m)) > 0
  /\ Len(NewUncaught(r1.m)) = 1 => r0.exc = NewUncaught(r1.m)[1]
  /\ \A x \in {c} \cup Descendants(c) :
       /\ r0.m.reason[x] # NoReason
       /\ r0.m.listeners[x] = <<>>
       /\ kCancellationReason[x] = NoReason => r0.m.reason[x] = r0.m.reason[c]

\* C18: without onUncaughtException the error of throwing listeners is
\* rethrown from the cancel call (a cancel function or a timer callback), and
\* only after the state transition is complete: the context has its reason,
\* its listeners are drained, every descendant has the reason, and the heap is
\* the one the same call leaves on a host with a handler.
C18_RethrowAfterTransition ==
  /\ \A c \in Contexts :
       HasCancelFunc(c) =>
         RethrownAfterTransition(CancelCall(OnHost(FALSE), c, "none"),
                                 CancelCall(OnHost(TRUE), c, "none"), c)
  /\ \A t \in DueTimers :
       RethrownAfterTransition(
         timerCallback([OnHost(FALSE) EXCEPT !.timers = @ \ {t}], t.ctx),
         timerCallback([OnHost(TRUE) EXCEPT !.timers = @ \ {t}], t.ctx), t.ctx)

\* On a host without handler a context was cancelled by its cancel function;
\* its throwing listener was invoked and its child holds the same reason.
C18_Witness ==
  /\ ~hasUncaughtHandler
  /\ \E i \in 1..Len(registrations), C \in Contexts :
       /\ registrations[i].act = "throw"
       /\ registrations[i].ref # 0
       /\ Calls(invocations, i) # {}
       /\ OwnReason(registrations[i].ctx, "CancelledError")
       /\ kParent[C] = registrations[i].ctx
       /\ ~made[C].born
       /\ kCancellationReason[C] = kCancellationReason[registrations[i].ctx]

RECURSIVE NearestBinding(_, _)
NearestBinding(c, k) ==
  IF made[c].by = "withValue" /\ kKey[c] = k THEN kValue[c]
  ELSE IF kParent[c] = 0 THEN Undefined
  ELSE NearestBinding(kParent[c], k)

\* C20 as stated: for every key k, `undefined` included, and every context G,
\* G.getValue(k) is the value of the nearest withValue(k, v) on G's chain,
\* whatever contexts lie in between, and unset when there is none.
C20_ValueShadowing ==
  \A G \in Contexts, k \in LookupKeys : getValue(M, G, k) = NearestBinding(G, k)

\* The contexts of the chain from c up to the root, c included.
Chain(c) == {c} \cup Ancestors(c)

\* Whether context a was created by withValue with key k.
Binds(a, k) == made[a].by = "withValue" /\ kKey[a] = k

\* C21 as stated: for every key k, `undefined` included, and every context C,
\* C.hasValue(k) is true exactly when C or one of its ancestors was created by
\* withValue with key k; so it is false on the root and on every chain that
\* contains no withValue for k.
C21_PresenceTracked ==
  \A C \in Contexts, k \in LookupKeys :
    hasValue(M, C, k) <=> \E a \in Chain(C) : Binds(a, k)

\* The way a promise of the given kind may settle.
SettlesAs(kind) == IF kind = "done" THEN "fulfilled" ELSE "rejected"

\* Promise i is settled the way its kind allows, with the reference ref.
SettledWith(m, i, ref) ==
  /\ m.promises[i].state = SettlesAs(m.promises[i].kind)
  /\ m.promises[i].value = ref

\* C22: a promise made by done() is only ever fulfilled and the thenable view
\* only ever rejected; while the context has no reason both are pending; once
\* the context has a reason both are settled with that very reference, and a
\* call of error() that finds a reason (a lapsed deadline included) leaves
\* them settled with the reference it returns.
C22_AwaitableBridge ==
  \A i \in 1..Len(promises) :
    LET c == promises[i].ctx
        e == error(M, c)
    IN /\ promises[i].state \in {"pending", SettlesAs(promises[i].kind)}
       /\ kCancellationReason[c] = NoReason => promises[i].state = "pending"
       /\ kCancellationReason[c] # NoReason => SettledWith(M, i, kCancellationReason[c])
       /\ e.m.reason[c] # NoReason => SettledWith(e.m, i, e.m.reason[c])
       /\ ~Threw(e) => e.ret = e.m.reason[c]

\* A promise of done() created before the cancellation is fulfilled, and a
\* thenable view of the same context created after it is rejected.
C22_Witness ==
  \E i, j \in 1..Len(promises) :
    /\ promises[i].ctx = promises[j].ctx
    /\ promises[i].kind = "done" /\ promises[i].early
    /\ promises[i].state = "fulfilled"
    /\ promises[j].kind = "then" /\ ~promises[j].early
    /\ promises[j].state = "rejected"
    /\ promises[i].value = promises[j].value

\* C23: a context has at most one abort controller.  Once ctx.signal has been
\* read, reading it again returns the same signal object and creates nothing,
\* no two contexts share a signal, and between operations the signal is
\* aborted exactly when the context's reason is set; the first read of a
\* context's signal leaves it in that same relation.
C23_SingleController ==
  \A c \in Contexts :
    LET k == kAbortController[c]
        r == signal(M, c)
        again == signal(r.m, c)
    IN /\ ~k.created => ~k.aborted
       /\ k.created =>
            /\ k.aborted <=> (kCancellationReason[c] # NoReason)
            /\ r.ret = k.id /\ r.m.controllers = abortControllers
            /\ \A d \in Contexts \ {c} : kAbortController[d].created
                                            => kAbortController[d].id # k.id
       /\ ~Threw(r) /\ ~Threw(again)
       /\ again.ret = r.ret /\ again.m.controllers = r.m.controllers
       /\ r.m.ctl[c].aborted <=> (r.m.reason[c] # NoReason)

\* The signal of a derived context was read, the context has a reason and the
\* signal is aborted with it.
C23_Witness ==
  \E c \in Contexts \ {Root} :
    /\ kAbortController[c].created /\ kAbortController[c].aborted
    /\ kCancellationReason[c] # NoReason
    /\ kAbortController[c].reason = kCancellationReason[c]

\* C24 as stated: whenever a context whose signal has not been read yet is
\* cancelled, that is error() returns a reason, be it from an explicit cancel,
\* from an ancestor or from a deadline that has passed without the host timer
\* having fired, the first read of its signal returns an aborted signal.
C24_FirstAccessAborted ==
  \A c \in Contexts :
    (~kAbortController[c].created /\ error(M, c).ret # NoReason)
      => signal(M, c).m.ctl[c].aborted

\* The contexts made by withAbortSignal.
SignalContexts == {c \in Contexts : made[c].by = "withAbortSignal"}

\* In heap m every listener the caller registered on c has been invoked
\* exactly once, with the reference stored as c's reason.
AllInvokedWithReason(m, c) ==
  \A i \in 1..Len(registrations) :
    registrations[i].ctx = c =>
      /\ Cardinality(Calls(m.log, i)) = 1
      /\ \A j \in Calls(m.log, i) : m.log[j].reason = m.reason[c]

\* C25: (1) withAbortSignal on a signal that is aborted already returns a
\* cancelled context; (2) when the signal aborts, then on return of abort()
\* every context derived from it has a reason, which is what error() returns,
\* its ctx.signal is aborted whether it was read before or is read now, and
\* every listener registered on it has been invoked once with that reference;
\* (3) such a context has a reason whenever its parent has one, and is given
\* one by the call of error() that finds the parent's.
C25_SignalToContext ==
  /\ abortSignal.aborted =>
       \A p \in Contexts :
         LET r == withAbortSignal(M, p)
         IN ~Threw(r) => r.m.reason[r.ret] # NoReason
  /\ ~abortSignal.aborted =>
       \A why \in {"none", "error"} :
         LET m2 == abortController(M, why)
         IN \A c \in SignalContexts :
              /\ m2.reason[c] # NoReason
              /\ ~Threw(error(m2, c)) /\ error(m2, c).ret = m2.reason[c]
              /\ kAbortController[c].created => m2.ctl[c].aborted
              /\ signal(m2, c).m.ctl[c].aborted
              /\ AllInvokedWithReason(m2, c)
  /\ \A c \in SignalContexts :
       /\ kCancellationReason[kParent[c]] # NoReason => kCancellationReason[c] # NoReason
       /\ kCancellationReason[c] # NoReason => AllInvokedWithReason(M, c)
       /\ LET e == error(M, kParent[c])
          IN e.m.reason[kParent[c]] # NoReason => e.m.reason[c] # NoReason

\* A context derived from the signal had a listener registered and its signal
\* read while it was live; the signal then aborted, which cancelled it with a
\* reason of its own, aborted its ctx.signal and invoked the listener.
C25_Witness ==
  \E c \in SignalContexts, i \in 1..Len(registrations) :
    /\ registrations[i].ctx = c /\ registrations[i].ref # 0
    /\ abortSignal.aborted
    /\ OwnReason(c, "CancelledError")
    /\ kAbortController[c].created /\ kAbortController[c].aborted
    /\ \E j \in Calls(invocations, i) : invocations[j].reason = kCancellationReason[c]

\* Whether the abort listener of context c is registered on the signal.
Attached(m, c) == \E i \in 1..Len(m.signal.listeners) : m.signal.listeners[i] = c

\* C26: once a context made by withAbortSignal has a reason, whatever gave it
\* one, its abort listener is no longer registered on the signal, and an abort
\* of the signal changes neither its reason, nor its listener list, nor its
\* ctx.signal, nor the invocations of the listeners registered on it.
C26_DetachOnCancel ==
  \A c \in SignalContexts :
    kCancellationReason[c] # NoReason =>
      /\ ~Attached(M, c)
      /\ \A why \in {"none", "error"} :
           LET m2 == abortController(M, why)
           IN /\ m2.reason[c] = kCancellationReason[c]
              /\ m2.listeners[c] = kListeners[c]
              /\ m2.ctl[c] = kAbortController[c]
              /\ \A i \in 1..Len(registrations) :
                   registrations[i].ctx = c => Calls(m2.log, i) = Calls(invocations, i)

\* A context that was derived live from the live signal, so that its abort
\* listener was attached, has been cancelled from elsewhere while the signal
\* is still not aborted.
C26_Witness ==
  \E c \in SignalContexts :
    /\ ~made[c].born
    /\ ~abortSignal.aborted
    /\ kCancellationReason[c] # NoReason
    /\ ~Attached(M, c)

\* The Cancelled reason that cancel(arg) is to produce: the passed Error as
\* the cause (it is object 1), the passed string as the message, and the
\* default message otherwise.
ReasonFor(obj, arg) ==
  /\ obj.name = "CancelledError"
  /\ arg = "error" => obj.cause = 1
  /\ arg = "message" => obj.message = "message" /\ obj.cause = 0
  /\ arg = "none" => obj.message = "Cancelled" /\ obj.cause = 0

\* C27 as stated: for every context that has a cancel function (from
\* withCancel, withDeadline or withTimeout) and is not cancelled yet, calling
\* the function with an Error, a string or nothing gives the context a
\* Cancelled reason with that cause, that message or the default message.
C27_CancelArguments ==
  \A c \in Contexts, arg \in CancelArgs :
    (HasCancelFunc(c) /\ ~Threw(error(M, c)) /\ error(M, c).ret = NoReason) =>
      LET r == CancelCall(M, c, arg)
      IN /\ r.m.reason[c] # NoReason
         /\ ReasonFor(r.m.reasons[r.m.reason[c]], arg)

\* The listeners in the list of p that were registered on behalf of the child
\* c: the constructor's link and withDeadline's timer clean-up.
OnBehalfOf(p, c) ==
  {i \in 1..Len(kListeners[p]) :
     kListeners[p][i].fn \in {"link", "clearTimer"} /\ kListeners[p][i].a = c}

\* C28 as stated: when a derived context has a reason and its parent has
\* none, the parent's listener list holds no listener that was registered on
\* behalf of that child.
C28_ChildReleasesSlot ==
  \A c \in Contexts \ {Root} :
    (kCancellationReason[c] # NoReason /\ kCancellationReason[kParent[c]] = NoReason)
      => OnBehalfOf(kParent[c], c) = {}

\* C29, synchronous notify: when cancel() returns, every listener registered
\* on the context and not disposed has been invoked exactly once, and then
\* disposing it changes nothing; nor does disposing any listener that has
\* been invoked.
DisposalAfterSyncCancel ==
  /\ \A c \in Contexts, i \in 1..Len(registrations) :
       (HasCancelFunc(c) /\ registrations[i].ctx = c /\ ~registrations[i].disposed) =>
         LET r == CancelCall(M, c, "none")
         IN /\ Cardinality(Calls(r.m.log, i)) = 1
            /\ dispose(r.m, c, registrations[i].ref) = r.m
  /\ \A i \in 1..Len(registrations) :
       Calls(invocations, i) # {} =>
         dispose(M, registrations[i].ctx, registrations[i].ref) = M

\* C29, microtask notify: cancel() itself invokes nothing; a listener disposed
\* while the context had a reason and before it was invoked is never invoked;
\* no listener is invoked twice; and once the queue is empty every listener
\* that is not disposed, on a context that has a reason, has been invoked
\* exactly once, with that reason.
DisposalAfterMicroCancel ==
  /\ \A c \in Contexts :
       HasCancelFunc(c) => CancelCallMicro(M, c, "none").m.log = invocations
  /\ \A i \in 1..Len(registrations) :
       /\ registrations[i].late => Calls(invocations, i) = {}
       /\ Cardinality(Calls(invocations, i)) <= 1
       /\ ( /\ Len(microtaskQueue) = 0
            /\ ~registrations[i].disposed
            /\ kCancellationReason[registrations[i].ctx] # NoReason )
          => /\ Cardinality(Calls(invocations, i)) = 1
             /\ \A j \in Calls(invocations, i) :
                  invocations[j].reason = kCancellationReason[registrations[i].ctx]

\* C29: what disposing a listener after cancel() does depends on the variant.
C29_DisposalAfterCancel ==
  /\ variant = "sync" => DisposalAfterSyncCancel
  /\ variant = "microtask" => DisposalAfterMicroCancel

\* With microtask notify, two listeners were registered on a context before it
\* was cancelled; one was disposed after the cancel and before the flush and
\* was not invoked, the other was invoked at the flush.
C29_Witness ==
  /\ variant = "microtask"
  /\ Len(microtaskQueue) = 0
  /\ \E i, j \in 1..Len(registrations) :
       /\ registrations[i].ctx = registrations[j].ctx
       /\ registrations[i].task = 0 /\ registrations[j].task = 0
       /\ registrations[i].late /\ Calls(invocations, i) = {}
       /\ ~registrations[j].disposed /\ Calls(invocations, j) # {}

\* Registration i is a listener that registers another one from inside.
Nesting(i) == registrations[i].act \in {"nest", "nestThrow"}

\* The listeners in c's list that were registered from inside a listener.
NestedLeft(c) ==
  {k \in 1..Len(kListeners[c]) :
     kListeners[c][k].fn = "user" /\ kListeners[c][k].a > MaxRegistrations}

\* C30: a listener registered on a context from inside one of that context's
\* own listeners, while the context is notified, is invoked exactly once with
\* the context's reason, before the registering listener returns (or throws
\* what the registration threw), and is never in the context's listener list.
C30_NestedRegistration ==
  /\ \A c \in Contexts : NestedLeft(c) = {}
  /\ \A i \in 1..Len(registrations) :
       Nesting(i) =>
         LET c == registrations[i].ctx
             inner == [reg |-> NestedId(i), reason |-> kCancellationReason[c]]
         IN /\ Cardinality(Calls(invocations, i)) <= 1
            /\ Cardinality(Calls(invocations, NestedId(i))) =
                 Cardinality(Calls(invocations, i))
            /\ \A k \in Calls(invocations, i) :
                 /\ invocations[k].reason = kCancellationReason[c]
                 /\ kCancellationReason[c] # NoReason
                 /\ k + 1 <= Len(invocations)
                 /\ invocations[k + 1] = inner
                 /\ Calls(invocations, ReturnOf(i)) \subseteq {k + 2}
                 /\ (hasUncaughtHandler \/ registrations[i].act = "nest")
                      => Calls(invocations, ReturnOf(i)) = {k + 2}

\* A listener that was pending on a context registered another one when the
\* context was notified, and a listener registered after it on the same
\* context was invoked later in the same drain.
C30_Witness ==
  \E i, j \in 1..Len(registrations) :
    /\ Nesting(i) /\ ~Nesting(j)
    /\ i < j
    /\ registrations[i].ctx = registrations[j].ctx
    /\ registrations[i].ref # 0 /\ registrations[j].ref # 0
    /\ Calls(invocations, NestedId(i)) # {}
    /\ \E k \in Calls(invocations, i), n \in Calls(invocations, j) : k + 1 < n

\* Two children of one parent.
Siblings(a, b) == a # b /\ kParent[a] # 0 /\ kParent[a] = kParent[b]

\* Registrations i and j were pending on two children when the reason of their
\* parent reached both.
Cascaded(i, j) ==
  LET a == registrations[i].ctx
      b == registrations[j].ctx
  IN /\ Siblings(a, b)
     /\ registrations[i].ref # 0 /\ registrations[j].ref # 0
     /\ kCancellationReason[kParent[a]] # NoReason
     /\ kCancellationReason[a] = kCancellationReason[kParent[a]]
     /\ kCancellationReason[b] = kCancellationReason[kParent[a]]

\* No listener of the other child is invoked while listener i is running.
CycleNotEntered(i, j) ==
  \A k \in Calls(invocations, i), n \in Calls(invocations, j),
     e \in Calls(invocations, ReturnOf(i)) : ~(k < n /\ n < e)

\* The listeners of the child that subscribed first are invoked first.
InSubscriptionOrder(i, j) ==
  registrations[i].ctx < registrations[j].ctx =>
    \A k \in Calls(invocations, i), n \in Calls(invocations, j) : k < n

\* C31: when the cancellation of a parent cascades to several children, each
\* child's notify cycle runs to completion before the next child's starts, in
\* the order in which the children subscribed to the parent, whatever the
\* listeners do.
C31_CascadeOrder ==
  \A i, j \in 1..Len(registrations) :
    Cascaded(i, j) => CycleNotEntered(i, j) /\ InSubscriptionOrder(i, j)

\* The deadline in force for c: the earliest deadline requested for it or for
\* an ancestor.
InForce(c) == RequestedDeadline(c)

\* The reasons that a call leading to heap m created for context c.
MadeFor(m, c) ==
  {k \in (Len(reasons) + 1)..Len(m.reasons) : m.reasons[k].origin = c}

\* error() on a context without reason: what the parent yields at that read
\* is what the context holds afterwards, the same reference, and nothing is
\* created for the context.
ParentFirst(c) ==
  LET p == error(M, kParent[c])
      r == error(M, c)
  IN p.ret # NoReason =>
       /\ r.m.reason[c] = p.ret
       /\ r.m.reason[kParent[c]] = p.ret
       /\ r.m.reasons[p.ret] = p.m.reasons[p.ret]
       /\ MadeFor(r.m, c) = {}

\* C32: error() adopts by reference the reason its parent holds or acquires
\* at that read before it looks at the context's own deadline, and a context
\* whose deadline in force equals its parent's never holds a DeadlineExceeded
\* other than the parent's.
C32_ParentBeforeDeadline ==
  \A c \in Contexts :
    kParent[c] # 0 =>
      /\ kCancellationReason[c] = NoReason => ParentFirst(c)
      /\ ( /\ isDeadlineExceededError(kCancellationReason[c])
           /\ InForce(c) = InForce(kParent[c]) )
         => kCancellationReason[c] = kCancellationReason[kParent[c]]

\* A context made before its parent's deadline, with the same deadline in
\* force, holds the DeadlineExceeded made for the parent, acquired at a read
\* while the parent's timer was still pending.
C32_Witness ==
  \E c \in Contexts :
    /\ kParent[c] # 0
    /\ ~made[c].born
    /\ kDeadlineAt[c] # NoDeadline
    /\ InForce(c) = InForce(kParent[c])
    /\ isDeadlineExceededError(kCancellationReason[c])
    /\ kCancellationReason[c] = kCancellationReason[kParent[c]]
    /\ reasons[kCancellationReason[c]].origin = kParent[c]
    /\ \E t \in timerQueue : t.ctx = kParent[c]

\* Context c has its reason and every listener registered on it was invoked
\* once; none is left in its list.
Delivered(c) ==
  /\ kCancellationReason[c] # NoReason
  /\ kListeners[c] = <<>>
  /\ \A i \in 1..Len(registrations) :
       registrations[i].ctx = c => Cardinality(Calls(invocations, i)) = 1

\* The host fires every timer that is due and not disposed: again and again
\* no due timer is left in its queue.
DueTimersFire == []<>(DueTimers = {})

C34_NoPrematureDeadline ==
  \A c \in Contexts :
    isDeadlineExceededError(kCancellationReason[c]) =>
      /\ InForce(c) # NoDeadline
      /\ currentTimeMs >= InForce(c)

\* A context holds the DeadlineExceeded made for it at its deadline MaxTime,
\* which was in the future when the context was made.
C34_Witness ==
  \E c \in Contexts :
    /\ ~made[c].born
    /\ InForce(c) = MaxTime
    /\ currentTimeMs = MaxTime
    /\ OwnReason(c, "DeadlineExceededError")
    /\ MaxTime > 0

\* C35: between top-level operations a context that has its reason has an
\* empty listener list, and every listener ever registered on it was invoked
\* once or disposed.
C35_CancelledHoldNoListeners ==
  \A c \in Contexts :
    kCancellationReason[c] # NoReason =>
      /\ kListeners[c] = <<>>
      /\ \A i \in 1..Len(registrations) :
           registrations[i].ctx = c =>
             \/ Cardinality(Calls(invocations, i)) = 1
             \/ registrations[i].disposed /\ Calls(invocations, i) = {}

\* Two listeners were pending on a context that now has its reason: one was
\* disposed before and never invoked, the other was invoked.
C35_Witness ==
  \E i, j \in 1..Len(registrations) :
    /\ registrations[i].ctx = registrations[j].ctx
    /\ registrations[i].ref # 0 /\ registrations[j].ref # 0
    /\ kCancellationReason[registrations[i].ctx] # NoReason
    /\ kListeners[registrations[i].ctx] = <<>>
    /\ registrations[i].disposed /\ Calls(invocations, i) = {}
    /\ ~registrations[j].disposed /\ Calls(invocations, j) # {}

\* C36: between top-level operations, when the stored reason of a context is
\* set the stored reason of each of its children is set too, no one having
\* read the child; listeners may throw on a host without onUncaughtException.
C36_EagerClosure ==
  \A c \in Contexts :
    (kParent[c] # 0 /\ kCancellationReason[kParent[c]] # NoReason)
      => kCancellationReason[c] # NoReason

\* On a host without handler a parent with a withValue child and a throwing
\* listener was cancelled; the child, made before, holds the parent's reason.
C36_Witness ==
  /\ ~hasUncaughtHandler
  /\ \E c \in Contexts, i \in 1..Len(registrations) :
       /\ made[c].by = "withValue" /\ ~made[c].born
       /\ kCancellationReason[c] # NoReason
       /\ kCancellationReason[c] = kCancellationReason[kParent[c]]
       /\ registrations[i].ctx = kParent[c]
       /\ registrations[i].act = "throw"
       /\ registrations[i].ref # 0
       /\ Calls(invocations, i) # {}

\* The caller's registrations pending on x, in the order of its list.
PendingOn(x) ==
  SelectSeq(kListeners[x], LAMBDA l : l.fn \in {"user", "nest", "nestThrow"})

\* The context that the listener of a log entry was registered on (0 for the
\* entry of a return).
OwnerOf(reg) ==
  IF reg \in 1..Len(registrations) THEN registrations[reg].ctx
  ELSE IF reg > MaxRegistrations /\ reg - MaxRegistrations \in 1..Len(registrations)
  THEN registrations[reg - MaxRegistrations].ctx
  ELSE 0

\* Entry k is the invocation of a listener by the onDidCancel call that
\* registered it: it follows the start of the registering listener directly.
ByRegistration(log, k) ==
  /\ k > 1
  /\ log[k].reg > MaxRegistrations
  /\ log[k - 1].reg = log[k].reg - MaxRegistrations

\* The invocations that the drain loop of x made during a call leading to m2.
LoopEntries(m2, x) ==
  {k \in (Len(invocations) + 1)..Len(m2.log) :
     OwnerOf(m2.log[k].reg) = x /\ ~ByRegistration(m2.log, k)}

\* The cycle of x in the call r: the loop invoked only wrappers that were in
\* the list when the call began, at most as many as there were, and left the
\* list empty.
BoundedCycle(r, x) ==
  /\ r.m.listeners[x] = <<>>
  /\ Cardinality(LoopEntries(r.m, x)) <= Len(PendingOn(x))
  /\ \A k \in LoopEntries(r.m, x) :
       \E j \in 1..Len(PendingOn(x)) : PendingOn(x)[j].a = r.m.log[k].reg

\* C37: once a context has its reason its listener list never grows, and in
\* every call that starts notify cycles the loop of each context invokes only
\* listeners registered before the reason was set, at most that many.
C37_BoundedReentry ==
  /\ [](\A r \in Triggers : \A x \in Changed(r.m) : BoundedCycle(r, x))
  /\ [][\A c \in Contexts :
          kCancellationReason[c] # NoReason => Len(kListeners'[c]) <= Len(kListeners[c])]_vars

\* Two listeners were pending on a context, the first of which registers
\* another one from inside; the context was cancelled, three listeners were
\* invoked and the list is empty.
C37_Witness ==
  \E i, j \in 1..Len(registrations) :
    /\ i < j /\ Nesting(i)
    /\ registrations[i].ctx = registrations[j].ctx
    /\ registrations[i].ref # 0 /\ registrations[j].ref # 0
    /\ kCancellationReason[registrations[i].ctx] # NoReason
    /\ kListeners[registrations[i].ctx] = <<>>
    /\ Calls(invocations, i) # {}
    /\ Calls(invocations, NestedId(i)) # {}
    /\ Calls(invocations, j) # {}
    /\ Len(invocations) >= 3

\* The contexts made by withEventEmitter and the names they were made for.
EmitterContexts == {d \in Contexts : made[d].by = "withEventEmitter"}
Enumerated(d) == {made[d].names[k] : k \in 1..Len(made[d].names)}

\* What withEventEmitter left behind for d: its handlers on the emitter and
\* its listeners in the list of d's parent.
HandlersOf(d) == {k \in 1..Len(emitterHandlers) : emitterHandlers[k].child = d}
ParentListenersOf(d) ==
  {k \in 1..Len(kListeners[kParent[d]]) :
     /\ kListeners[kParent[d]][k].fn = "removeHandler"
     /\ kListeners[kParent[d]][k].a = d}

\* Emitting name now gives d a reason, one made for d itself.
CancelledByEvent(d, name) ==
  LET r == emit(M, name)
  IN r.m.reason[d] # NoReason /\ r.m.reasons[r.m.reason[d]].origin = d

\* C38: a context made by withEventEmitter is cancelled by the first of the
\* enumerated events and by no other event, and once it has a reason none of
\* its handlers is on the emitter and none of its listeners is in the
\* parent's list.
C38_EmitterCleanup ==
  \A d \in EmitterContexts :
    /\ kCancellationReason[d] = NoReason =>
         \A name \in EventNames :
           /\ (name \in Enumerated(d) /\ ~Threw(emit(M, name)))
                => emit(M, name).m.reason[d] # NoReason
           /\ name \notin Enumerated(d) => ~CancelledByEvent(d, name)
    /\ kCancellationReason[d] # NoReason =>
         HandlersOf(d) = {} /\ ParentListenersOf(d) = {}

\* ------------------------------------------------------------- C39
\* The promises runWithContext returned, and for each the promise fn returned.
Races == {i \in 1..Len(promises) : promises[i].kind = "race"}
ResultOf(i) == i - 2

\* A context cancelled while the promise fn returned is pending has rejected
\* the promise runWithContext returned, with the context's reason.
RejectsWhilePending ==
  \A i \in Races :
    ( /\ kCancellationReason[promises[i].ctx] # NoReason
      /\ promises[ResultOf(i)].state = "pending" )
    => ( /\ promises[i].state = "rejected"
         /\ promises[i].value = kCancellationReason[promises[i].ctx] )

\* runWithContext on a context that has a reason throws that reason and
\* leaves fn uncalled.
ThrowsWhenCancelled ==
  \A c \in Contexts, fn \in FnKinds :
    kCancellationReason[c] # NoReason =>
      LET r == runWithContext(M, c, fn)
      IN /\ Threw(r)
         /\ r.exc = ReasonThrown(kCancellationReason[c])
         /\ r.m.log = invocations
         /\ r.m.promises = promises

\* C39: runWithContext short-circuits on cancellation: a context cancelled
\* while the promise fn returned is pending rejects the returned promise with
\* its cancellation reason, and a context cancelled before the call makes
\* runWithContext throw the reason without calling fn.
C39_RunShortCircuits == RejectsWhilePending /\ ThrowsWhenCancelled

\* ------------------------------------------------------------- C40
\* The registrations made on a context that had its reason by then.
LateRegistrations == {r \in 1..Len(registrations) : registrations[r].late}

\* Registering on a context that has a reason invokes nothing.
NotDuringRegistration ==
  \A c \in Contexts :
    kCancellationReason[c] # NoReason =>
      onDidCancelEvent(M, c, "user", Len(registrations) + 1).m.log = invocations

\* The callback has run once if the host has run its timer, and not before.
OnceFromTimer ==
  \A r \in LateRegistrations :
    Cardinality(Calls(invocations, r)) =
      IF hostTimeouts[registrations[r].ref].state = "ran" THEN 1 ELSE 0

\* What the callback received is the reason of its context.
ReceivedReason ==
  \A r \in LateRegistrations :
    \A i \in Calls(invocations, r) :
      invocations[i].reason = kCancellationReason[registrations[r].ctx]

\* C40: a listener registered with onDidCancel on an emitter-based context
\* that is cancelled already is not invoked during the registration call; it
\* is invoked once, when the host runs the zero-delay timer, and it receives
\* the context's cancellation reason.
C40_LateRegistration ==
  NotDuringRegistration /\ OnceFromTimer /\ ReceivedReason

====
